---- MODULE Spec2Model ----
(***************************************************************************)
(* A model of the mzlib container family: the owning buffer mz::Vector,    *)
(* the contiguous view mz::Span and the strided view mz::Slice, with the   *)
(* elementwise operations they share.                                      *)
(*                                                                         *)
(* Storage is modelled cell by cell.  A cell of a freshly allocated block  *)
(* holds the marker Uninit until it is written; reading such a cell yields *)
(* any value.  An operation whose execution is undefined in C++ (an access *)
(* outside the block, an array-new of negative length under noexcept) sets *)
(* ub and the object is not used afterwards.  A memcpy over ranges that    *)
(* overlap leaves any of the results the C library can produce.            *)
(*                                                                         *)
(* A client makes one call at a time: a call records what it returned in   *)
(* ret, the client takes the result (Discard) and makes the next call.     *)
(* subject says whether the client works on a Vector, on views or on a     *)
(* Stack.  stream is the mz::StringStream a Vector is saved to and loaded  *)
(* from; stack is the mz::Stack and live the pushes still on it; range is  *)
(* the array mz::range_sign searches and timer the mz::Timer with its      *)
(* clock.                                                                  *)
(***************************************************************************)
EXTENDS Integers, Sequences, FiniteSets, TLC

VARIABLES subject, vec, ret, ub, pushed, reallocs, mem, L, stream, stack, live,
          range, timer

vars == <<subject, vec, ret, ub, pushed, reallocs, mem, L, stream, stack, live,
          range, timer>>

vecVars == <<vec, pushed, reallocs>>
viewVars == <<mem, L>>
moreVars == <<range, timer>>
auxVars == <<stream, stack, live, moreVars>>

----------------------------------------------------------------------------
\* Bounds of the model.

\* largest capacity a Vector is asked for
MaxCap == 3
\* element values are 0..MaxVal
MaxVal == 1
\* longest sequence handed to append and to the assignments
MaxSeq == 2
\* number of push_back calls followed from the empty Vector
MaxPush == 6
\* number of cells of the storage the views look at
MemLen == 4

Values == 0..MaxVal

\* marker of a cell that was allocated and never written
Uninit == -1

\* the null pointer, and the address of the live block of the Vector
NullPtr == 0
LivePtr == 1

Min(a, b) == IF a < b THEN a ELSE b
Max(a, b) == IF a < b THEN b ELSE a

----------------------------------------------------------------------------
\* mz::Vector<int>: { m_data, m_size, m_cap }; m_store is the content of the
\* block m_data points to, one entry per allocated element.

EmptyVector == [m_data |-> NullPtr, m_store |-> <<>>, m_size |-> 0, m_cap |-> 0]

\* Vector(Capacity, Size): new value_type[Capacity], no check of Size
VectorCapSize(Capacity, Size) ==
    [m_data |-> LivePtr,
     m_store |-> [i \in 1..Capacity |-> Uninit],
     m_size |-> Size,
     m_cap |-> Capacity]

\* Vector(Seq const&) and Vector(Vector const&): deep copy of the elements
VectorFromSeq(rhs) ==
    [m_data |-> LivePtr, m_store |-> rhs, m_size |-> Len(rhs), m_cap |-> Len(rhs)]

\* the values a read of element index (0-based) of the block can yield
ReadCell(v, index) ==
    IF v.m_store[index + 1] = Uninit THEN Values ELSE {v.m_store[index + 1]}

\* m_data[index] = e
WriteCell(v, index, e) == [v EXCEPT !.m_store[index + 1] = e]

\* the block is accessed only inside its allocation
InBlock(v, index) == v.m_data # NullPtr /\ 0 <= index /\ index < Len(v.m_store)

\* trim_length: clamp Length into [0, m_size]
trim_length(v, Length) ==
    IF Length < 0 THEN 0 ELSE (IF Length < v.m_size THEN Length ELSE v.m_size)

\* reserve(Capacity, KeepExistingData)
reserve(v, Capacity, KeepExistingData) ==
    IF v.m_cap < Capacity
    THEN [m_data |-> LivePtr,
          m_store |-> [i \in 1..Capacity |->
                          IF KeepExistingData /\ v.m_size > 0 /\ i <= v.m_size
                          THEN v.m_store[i] ELSE Uninit],
          m_size |-> IF KeepExistingData /\ v.m_size > 0 THEN v.m_size ELSE 0,
          m_cap |-> Capacity]
    ELSE v

\* reserve copies m_size elements out of the old block: undefined when the
\* old block is shorter than that
reserveUB(v, Capacity, KeepExistingData) ==
    v.m_cap < Capacity /\ KeepExistingData /\ v.m_size > Len(v.m_store)

\* enlarge() growing the block by two elements instead of doubling it
enlarge_adds_two(v) ==
    IF v.m_size = v.m_cap THEN reserve(v, v.m_cap + 2, TRUE) ELSE v

\* enlarge(): double the capacity (seed 2) when the Vector is full
enlarge(v) ==
    IF v.m_size = v.m_cap
    THEN reserve(v, IF v.m_cap # 0 THEN v.m_cap * 2 ELSE 2, TRUE)
    ELSE v

\* shrink_to_fit(): a block of exactly m_size elements when m_size < m_cap
shrink_to_fit(v) ==
    IF v.m_size < v.m_cap
    THEN [m_data |-> LivePtr,
          m_store |-> [i \in 1..v.m_size |-> v.m_store[i]],
          m_size |-> v.m_size,
          m_cap |-> v.m_size]
    ELSE v

\* std::unique dropping every element met before, adjacent or not
RECURSIVE StdUnique_drops_repeats(_, _)
StdUnique_drops_repeats(s, kept) ==
    IF s = <<>> THEN kept
    ELSE IF \E k \in 1..Len(kept) : kept[k] = Head(s)
         THEN StdUnique_drops_repeats(Tail(s), kept)
         ELSE StdUnique_drops_repeats(Tail(s), Append(kept, Head(s)))

\* std::unique over the elements: an element is kept when it differs from
\* the last one kept
RECURSIVE StdUnique(_, _)
StdUnique(s, kept) ==
    IF s = <<>> THEN kept
    ELSE IF kept # <<>> /\ kept[Len(kept)] = Head(s)
         THEN StdUnique(Tail(s), kept)
         ELSE StdUnique(Tail(s), Append(kept, Head(s)))

\* the contents the block can show when its first n cells are read: a cell
\* never written reads as any value
Concrete(store, n) ==
    LET unset == {i \in 1..Len(store) : store[i] = Uninit /\ i <= n}
    IN {[i \in 1..Len(store) |-> IF i \in unset THEN f[i] ELSE store[i]] :
           f \in [unset -> Values]}

----------------------------------------------------------------------------
\* The arguments the operations of the Vector are called with.

CapArgs == -1..MaxCap
SizeArgs == -1..(MaxCap + 1)
IndexArgs == -1..(MaxCap + 1)
SeqArgs == UNION {[1..n -> Values] : n \in 0..MaxSeq}

\* what the last call did: its name, argument, outcome ("ok" or "error"),
\* the value or view (ptr, len) it returned, whether it allocated a new
\* block, and the object before the call
Result(op, arg, status, val, ptr, len, realloc, old) ==
    [op |-> op, arg |-> arg, status |-> status, val |-> val,
     ptr |-> ptr, len |-> len, realloc |-> realloc, old |-> old]

\* the call returns normally (or throws, status "error") leaving the Vector v2
VecDone(op, arg, v2, status, val, ptr, len, realloc) ==
    /\ vec' = v2
    /\ ret' = Result(op, arg, status, val, ptr, len, realloc, vec)
    /\ ub' = FALSE
    /\ UNCHANGED <<viewVars, auxVars, subject>>

\* the same for a call whose outcome does not depend on the Vector before it
\* (nothing of the old object is recorded)
VecMade(op, arg, v2, realloc) ==
    /\ vec' = v2
    /\ ret' = Result(op, arg, "ok", 0, 0, 0, realloc, EmptyVector)
    /\ ub' = FALSE
    /\ UNCHANGED <<viewVars, auxVars, subject>>

\* the call has undefined behaviour
VecUndefined(op, arg) ==
    /\ ub' = TRUE
    /\ ret' = Result(op, arg, "ub", 0, 0, 0, FALSE, EmptyVector)
    /\ vec' = vec
    /\ UNCHANGED <<viewVars, auxVars, subject>>

\* a call on the Vector starts when the result of the last call was taken
VecIdle == subject = "Vector" /\ ~ub /\ ret.op = "none"

\* the calls other than push_back leave the record of pushes alone
NoPush == UNCHANGED <<pushed, reallocs>>

----------------------------------------------------------------------------
\* Construction and capacity management of the Vector.

\* explicit Vector(Capacity, Size)
Construct ==
    /\ VecIdle
    /\ \E Capacity \in 0..MaxCap, Size \in SizeArgs :
          VecMade("Vector", <<Capacity, Size>>, VectorCapSize(Capacity, Size), TRUE)
    /\ NoPush

Reserve ==
    /\ VecIdle
    /\ \E Capacity \in CapArgs, Keep \in BOOLEAN :
          IF reserveUB(vec, Capacity, Keep)
          THEN VecUndefined("reserve", <<Capacity, Keep>>)
          ELSE VecDone("reserve", <<Capacity, Keep>>, reserve(vec, Capacity, Keep),
                       "ok", 0, 0, 0, vec.m_cap < Capacity)
    /\ NoPush

\* reserve_extra(ExtraCapacity): throws on m_size < 0 or m_size > m_cap
ReserveExtra ==
    /\ VecIdle
    /\ \E Extra \in 0..MaxCap :
          /\ vec.m_size + Extra <= MaxCap
          /\ IF vec.m_size < 0 \/ vec.m_size > vec.m_cap
             THEN VecDone("reserve_extra", Extra, vec, "error", 0, 0, 0, FALSE)
             ELSE VecDone("reserve_extra", Extra,
                          reserve(vec, vec.m_size + Extra, TRUE),
                          "ok", 0, 0, 0, vec.m_cap < vec.m_size + Extra)
    /\ NoPush

\* the block reserve_and_clear and reserve_and_resize leave: a fresh one when
\* the capacity grows (nothing is copied)
FreshIfLarger(v, Capacity) ==
    IF v.m_cap < Capacity
    THEN [v EXCEPT !.m_data = LivePtr,
                   !.m_store = [i \in 1..Capacity |-> Uninit],
                   !.m_cap = Capacity]
    ELSE v

ReserveAndClear ==
    /\ VecIdle
    /\ \E Capacity \in CapArgs :
          VecDone("reserve_and_clear", Capacity,
                  [FreshIfLarger(vec, Capacity) EXCEPT !.m_size = 0],
                  "ok", 0, 0, 0, vec.m_cap < Capacity)
    /\ NoPush

ReserveAndResize ==
    /\ VecIdle
    /\ \E Capacity \in CapArgs :
          VecDone("reserve_and_resize", Capacity,
                  [FreshIfLarger(vec, Capacity) EXCEPT !.m_size = Capacity],
                  "ok", 0, 0, 0, vec.m_cap < Capacity)
    /\ NoPush

\* resize(Size, KeepExistingData): reserve, then m_size = Size
resize(v, Size, KeepExistingData) ==
    [reserve(v, Size, KeepExistingData) EXCEPT !.m_size = Size]

Resize ==
    /\ VecIdle
    /\ \E Size \in CapArgs, Keep \in BOOLEAN :
          IF reserveUB(vec, Size, Keep)
          THEN VecUndefined("resize", <<Size, Keep>>)
          ELSE VecDone("resize", <<Size, Keep>>, resize(vec, Size, Keep),
                       "ok", 0, 0, 0, vec.m_cap < Size)
    /\ NoPush

\* resize_and_initialize(Size, Value): every element becomes Value
ResizeAndInitialize ==
    /\ VecIdle
    /\ \E Size \in CapArgs, Value \in Values :
          LET v1 == resize(vec, Size, FALSE)
          IN VecDone("resize_and_initialize", <<Size, Value>>,
                     [v1 EXCEPT !.m_store = [i \in 1..Len(v1.m_store) |->
                                    IF i <= Size THEN Value ELSE v1.m_store[i]]],
                     "ok", 0, 0, 0, vec.m_cap < Size)
    /\ NoPush

\* resize_and_clear(Size): memset of sizeof(value_type) * m_size bytes, a
\* huge unsigned count when Size is negative
ResizeAndClear ==
    /\ VecIdle
    /\ \E Size \in CapArgs :
          LET v1 == resize(vec, Size, FALSE)
          IN IF Size < 0
             THEN VecUndefined("resize_and_clear", Size)
             ELSE VecDone("resize_and_clear", Size,
                          [v1 EXCEPT !.m_store = [i \in 1..Len(v1.m_store) |->
                                         IF i <= Size THEN 0 ELSE v1.m_store[i]]],
                          "ok", 0, 0, 0, vec.m_cap < Size)
    /\ NoPush

Enlarge ==
    /\ VecIdle
    /\ (vec.m_size = vec.m_cap => Max(2, 2 * vec.m_cap) <= MaxCap)
    /\ VecDone("enlarge", 0, enlarge(vec), "ok", 0, 0, 0, vec.m_size = vec.m_cap)
    /\ NoPush

\* shrink_to_fit(): new value_type[m_size] ends the program when m_size < 0
ShrinkToFit ==
    /\ VecIdle
    /\ IF vec.m_size < vec.m_cap /\ vec.m_size < 0
       THEN VecUndefined("shrink_to_fit", 0)
       ELSE VecDone("shrink_to_fit", 0, shrink_to_fit(vec), "ok", 0, 0, 0,
                    vec.m_size < vec.m_cap)
    /\ NoPush

Clear ==
    /\ VecIdle
    /\ VecDone("clear", 0, [vec EXCEPT !.m_size = 0], "ok", 0, 0, 0, FALSE)
    /\ NoPush

\* clean(): swap with an empty Vector, whose destructor frees the block
Clean ==
    /\ VecIdle
    /\ VecMade("clean", 0, EmptyVector, FALSE)
    /\ NoPush

ExpandToCapacity ==
    /\ VecIdle
    /\ VecDone("expand_to_capacity", 0, [vec EXCEPT !.m_size = vec.m_cap],
               "ok", 0, 0, 0, FALSE)
    /\ NoPush

----------------------------------------------------------------------------
\* Element access and modifiers of the Vector.

\* push_back(e): enlarge(), then m_data[m_size++] = e; reserve allocates a
\* block exactly when it changes the capacity
push_back(e) ==
    LET v1 == enlarge(vec)
    IN IF ~InBlock(v1, v1.m_size)
       THEN VecUndefined("push_back", e)
       ELSE VecDone("push_back", e,
                    [WriteCell(v1, v1.m_size, e) EXCEPT !.m_size = v1.m_size + 1],
                    "ok", 0, 0, 0, v1.m_cap # vec.m_cap)

PushBack ==
    /\ VecIdle
    /\ (vec.m_size = vec.m_cap => Max(2, 2 * vec.m_cap) <= MaxCap)
    /\ \E e \in Values : push_back(e)
    /\ NoPush

\* unsafe_push_back(e): m_data[m_size++] = e with no check at all
UnsafePushBack ==
    /\ VecIdle
    /\ \E e \in Values :
          IF ~InBlock(vec, vec.m_size)
          THEN VecUndefined("unsafe_push_back", e)
          ELSE VecDone("unsafe_push_back", e,
                       [WriteCell(vec, vec.m_size, e) EXCEPT !.m_size = vec.m_size + 1],
                       "ok", 0, 0, 0, FALSE)
    /\ NoPush

\* pop_back(): throws when m_size < 1, else returns m_data[--m_size]
PopBack ==
    /\ VecIdle
    /\ IF vec.m_size < 1
       THEN VecDone("pop_back", 0, vec, "error", 0, 0, 0, FALSE)
       ELSE IF ~InBlock(vec, vec.m_size - 1)
            THEN VecUndefined("pop_back", 0)
            ELSE \E x \in ReadCell(vec, vec.m_size - 1) :
                    VecDone("pop_back", 0, [vec EXCEPT !.m_size = vec.m_size - 1],
                            "ok", x, 0, 0, FALSE)
    /\ NoPush

\* m_data[first + i] = rhs[i] for every i
RECURSIVE WriteSeq(_, _, _)
WriteSeq(v, first, rhs) ==
    IF rhs = <<>> THEN v
    ELSE WriteSeq(WriteCell(v, first, Head(rhs)), first + 1, Tail(rhs))

\* append(rhs): reserve(m_size + rhs.size(), true), copy, m_size += rhs.size()
\* append adding the elements without counting them in the size
append_keeps_size(v, rhs) ==
    LET v1 == reserve(v, v.m_size + Len(rhs), TRUE)
    IN WriteSeq(v1, v1.m_size, rhs)

append(v, rhs) ==
    LET v1 == reserve(v, v.m_size + Len(rhs), TRUE)
    IN [WriteSeq(v1, v1.m_size, rhs) EXCEPT !.m_size = v1.m_size + Len(rhs)]

appendUB(v, rhs) ==
    LET v1 == reserve(v, v.m_size + Len(rhs), TRUE)
    IN \/ reserveUB(v, v.m_size + Len(rhs), TRUE)
       \/ \E i \in 0..(Len(rhs) - 1) : ~InBlock(v1, v1.m_size + i)

Append_ ==
    /\ VecIdle
    /\ \E rhs \in SeqArgs :
          /\ vec.m_size + Len(rhs) <= MaxCap
          /\ IF appendUB(vec, rhs)
             THEN VecUndefined("append", rhs)
             ELSE VecDone("append", rhs, append(vec, rhs), "ok", 0, 0, 0,
                          vec.m_cap < vec.m_size + Len(rhs))
    /\ NoPush

\* append(mz::Span rhs): reserve, one memcpy of rhs.size() elements to
\* m_data + m_size, m_size += rhs.size()
append_span(v, rhs) ==
    LET v1 == reserve(v, v.m_size + Len(rhs), TRUE)
    IN [m_data |-> v1.m_data,
        m_store |-> [i \in 1..Len(v1.m_store) |->
                        IF v1.m_size < i /\ i <= v1.m_size + Len(rhs)
                        THEN rhs[i - v1.m_size] ELSE v1.m_store[i]],
        m_size |-> v1.m_size + Len(rhs),
        m_cap |-> v1.m_cap]

\* the memcpy is undefined when its destination range leaves the block
append_spanUB(v, rhs) ==
    LET v1 == reserve(v, v.m_size + Len(rhs), TRUE)
    IN \/ reserveUB(v, v.m_size + Len(rhs), TRUE)
       \/ /\ rhs # <<>>
          /\ \/ ~InBlock(v1, v1.m_size)
             \/ ~InBlock(v1, v1.m_size + Len(rhs) - 1)

\* append of a Span over elements of the same type, outside this Vector
AppendSpan ==
    /\ VecIdle
    /\ \E rhs \in SeqArgs :
          /\ vec.m_size + Len(rhs) <= MaxCap
          /\ IF append_spanUB(vec, rhs)
             THEN VecUndefined("append_span", rhs)
             ELSE VecDone("append_span", rhs, append_span(vec, rhs), "ok", 0, 0, 0,
                          vec.m_cap < vec.m_size + Len(rhs))
    /\ NoPush

\* operator=(Vector const&): swap with a deep copy of rhs
AssignVector ==
    /\ VecIdle
    /\ \E rhs \in SeqArgs :
          VecMade("assign_vector", rhs, VectorFromSeq(rhs), TRUE)
    /\ NoPush

\* the same call with the Vector before it recorded
CopyAssign ==
    /\ VecIdle
    /\ \E rhs \in SeqArgs :
          VecDone("copy_assign", rhs, VectorFromSeq(rhs), "ok", 0, 0, 0, TRUE)
    /\ NoPush

\* operator=(Seq const&): a new Vector when rhs does not fit, else copy in place
assign_seq(v, rhs) ==
    IF v.m_cap < Len(rhs)
    THEN VectorFromSeq(rhs)
    ELSE [WriteSeq(v, 0, rhs) EXCEPT !.m_size = Len(rhs)]

AssignSeq ==
    /\ VecIdle
    /\ \E rhs \in SeqArgs :
          VecDone("assign_seq", rhs, assign_seq(vec, rhs), "ok", 0, 0, 0,
                  vec.m_cap < Len(rhs))
    /\ NoPush

\* unique(): std::unique over [m_data, m_data + m_size); the elements past
\* the new end are left unspecified
Unique ==
    /\ VecIdle
    /\ IF vec.m_size < 0 \/ vec.m_size > Len(vec.m_store)
       THEN VecUndefined("unique", 0)
       ELSE \E s \in Concrete(vec.m_store, vec.m_size) :
              LET u == StdUnique(SubSeq(s, 1, vec.m_size), <<>>)
              IN VecDone("unique", 0,
                         [vec EXCEPT !.m_size = Len(u),
                                     !.m_store = [i \in 1..Len(s) |->
                                         IF i <= Len(u) THEN u[i]
                                         ELSE IF i <= vec.m_size THEN Uninit
                                         ELSE s[i]]],
                         "ok", vec.m_size - Len(u), 0, 0, FALSE)
    /\ NoPush

\* front(): throws when m_size < 1, else m_data[0]
Front ==
    /\ VecIdle
    /\ IF vec.m_size < 1
       THEN VecDone("front", 0, vec, "error", 0, 0, 0, FALSE)
       ELSE IF ~InBlock(vec, 0)
            THEN VecUndefined("front", 0)
            ELSE \E x \in ReadCell(vec, 0) :
                    VecDone("front", 0, vec, "ok", x, 0, 0, FALSE)
    /\ NoPush

\* back(): throws when m_size < 1, else m_data[m_size - 1]
Back ==
    /\ VecIdle
    /\ IF vec.m_size < 1
       THEN VecDone("back", 0, vec, "error", 0, 0, 0, FALSE)
       ELSE IF ~InBlock(vec, vec.m_size - 1)
            THEN VecUndefined("back", 0)
            ELSE \E x \in ReadCell(vec, vec.m_size - 1) :
                    VecDone("back", 0, vec, "ok", x, vec.m_size - 1, 0, FALSE)
    /\ NoPush

\* the test at(index) makes before it throws
atThrows(v, index) == v.m_size < index

\* at(index): INVALID_ARGUMENT_IF(m_size < index), else operator[](index);
\* ptr is the index of the element returned
At ==
    /\ VecIdle
    /\ \E index \in IndexArgs :
          IF atThrows(vec, index)
          THEN VecDone("at", index, vec, "error", 0, 0, 0, FALSE)
          ELSE IF ~InBlock(vec, index)
               THEN VecUndefined("at", index)
               ELSE \E x \in ReadCell(vec, index) :
                       VecDone("at", index, vec, "ok", x, index, 0, FALSE)
    /\ NoPush

\* head(Length): Span(m_data, trim_length(Length))
vector_head(v, Length) == [ptr |-> 0, len |-> trim_length(v, Length)]

\* tail(Length): Span(m_data + m_size - Length, Length) after trimming
vector_tail(v, Length) ==
    [ptr |-> v.m_size - trim_length(v, Length), len |-> trim_length(v, Length)]

Head_ ==
    /\ VecIdle
    /\ \E Length \in SizeArgs :
          VecDone("head", Length, vec, "ok", 0,
                  vector_head(vec, Length).ptr, vector_head(vec, Length).len, FALSE)
    /\ NoPush

Tail_ ==
    /\ VecIdle
    /\ \E Length \in SizeArgs :
          VecDone("tail", Length, vec, "ok", 0,
                  vector_tail(vec, Length).ptr, vector_tail(vec, Length).len, FALSE)
    /\ NoPush

\* operator+=(Seq seq) of the elementwise mixin on a Vector: throws when the
\* sizes differ, else at(i) += seq[i] for every i
RECURSIVE AddSeq(_, _, _)
AddSeq(v, first, rhs) ==
    IF rhs = <<>> THEN v
    ELSE AddSeq(WriteCell(v, first, v.m_store[first + 1] + Head(rhs)),
                first + 1, Tail(rhs))

VecAddAssign ==
    /\ VecIdle
    /\ \E rhs \in SeqArgs :
          IF vec.m_size # Len(rhs)
          THEN VecDone("vec_add_assign", rhs, vec, "error", 0, 0, 0, FALSE)
          ELSE IF vec.m_size > Len(vec.m_store)
               THEN VecUndefined("vec_add_assign", rhs)
               ELSE \E s \in Concrete(vec.m_store, vec.m_size) :
                       LET v2 == AddSeq([vec EXCEPT !.m_store = s], 0, rhs)
                       IN /\ \A i \in 1..vec.m_size : v2.m_store[i] <= MaxVal
                          /\ VecDone("vec_add_assign", rhs, v2, "ok", 0, 0, 0, FALSE)
    /\ NoPush

----------------------------------------------------------------------------
\* mz::Span<int> { data_, size_ } and mz::Slice<int> { m_data, m_size, m_step }
\* over a caller's buffer mem, whose cells have the addresses 1..MemLen.

Span(Pointer, Size) == [kind |-> "Span", ptr |-> Pointer, size |-> Size, step |-> 1]

\* Slice(Pointer, Size, Step): the three arguments are stored as given
Slice(Pointer, Size, Step) ==
    [kind |-> "Slice", ptr |-> Pointer, size |-> Size, step |-> Step]

\* Slice(Span SP): Slice{ SP.data(), SP.size() }, the step is 1
SliceFromSpan(SP) == Slice(SP.ptr, SP.size, 1)

\* operator=(slice_view sv): m_data and m_size are taken from the view
SliceAssignView(s, sv) == [s EXCEPT !.ptr = sv.ptr, !.size = sv.size]

\* Slice::valid() without the test of the pointer
valid(s) == s.size >= 0 /\ s.step # 0

\* operator[] of a Slice that forgets the stride
ElemAddr_ignores_step(view, index) == view.ptr + index

\* the address operator[](index) resolves to: data_[Index] for a Span,
\* m_data[index * m_step] for a Slice
ElemAddr(view, index) ==
    IF view.kind = "Span" THEN view.ptr + index ELSE view.ptr + index * view.step

InMem(a) == a \in 1..MemLen

Cells(view) == {ElemAddr(view, i) : i \in 0..(view.size - 1)}

\* a container handed to an operation by value: a view still looks at mem, a
\* Vector or a literal list brings its own elements
ViewOperand(view) ==
    [kind |-> view.kind, ptr |-> view.ptr, size |-> view.size, step |-> view.step,
     elems |-> <<>>]
OwnOperand(kind, elems) ==
    [kind |-> kind, ptr |-> NullPtr, size |-> Len(elems), step |-> 1, elems |-> elems]

IsView(rhs) == rhs.kind \in {"Span", "Slice"}

OperandCells(rhs) == IF IsView(rhs) THEN Cells(rhs) ELSE {}

\* rhs[i]
OperandAt(m, rhs, i) ==
    IF IsView(rhs) THEN m[ElemAddr(rhs, i)] ELSE rhs.elems[i + 1]

\* the += loop adding seq[0] to every element
RECURSIVE AddLoop_adds_first(_, _, _, _)
AddLoop_adds_first(m, dst, rhs, i) ==
    IF i >= dst.size THEN m
    ELSE AddLoop_adds_first([m EXCEPT ![dst.ptr + i * dst.step] = @ + OperandAt(m, rhs, 0)],
                            dst, rhs, i + 1)

\* for (i = 0; i < size(); ++i) at(i) += seq[i]
RECURSIVE AddLoop(_, _, _, _)
AddLoop(m, dst, rhs, i) ==
    IF i >= dst.size THEN m
    ELSE AddLoop([m EXCEPT ![ElemAddr(dst, i)] = @ + OperandAt(m, rhs, i)],
                 dst, rhs, i + 1)

\* the copy loop stopping one element early
RECURSIVE CopyLoop_stops_early(_, _, _, _)
CopyLoop_stops_early(m, dst, rhs, i) ==
    IF i >= dst.size - 1 THEN m
    ELSE CopyLoop_stops_early([m EXCEPT ![dst.ptr + i * dst.step] = OperandAt(m, rhs, i)],
                              dst, rhs, i + 1)

\* for (i = 0; i < size(); i++) operator[](i) = rhs[i]
RECURSIVE CopyLoop(_, _, _, _)
CopyLoop(m, dst, rhs, i) ==
    IF i >= dst.size THEN m
    ELSE CopyLoop([m EXCEPT ![ElemAddr(dst, i)] = OperandAt(m, rhs, i)],
                  dst, rhs, i + 1)

\* the same copy made from the last element down to the first
RECURSIVE CopyDown(_, _, _, _)
CopyDown(m, dst, rhs, i) ==
    IF i < 0 THEN m
    ELSE CopyDown([m EXCEPT ![ElemAddr(dst, i)] = OperandAt(m, rhs, i)],
                  dst, rhs, i - 1)

\* the copy made from the values the source had at the call
CopySnapshot(m, dst, rhs) ==
    [a \in 1..MemLen |->
        IF \E i \in 0..(dst.size - 1) : ElemAddr(dst, i) = a
        THEN OperandAt(m, rhs, CHOOSE i \in 0..(dst.size - 1) : ElemAddr(dst, i) = a)
        ELSE m[a]]

\* memcpy(data(), rhs.data(), sizeof(value_type) * size()): over ranges that
\* overlap the C library may copy in either direction or through a buffer
Memcpy(m, dst, rhs) ==
    IF Cells(dst) \cap Cells(rhs) = {}
    THEN {CopyLoop(m, dst, rhs, 0)}
    ELSE {CopyLoop(m, dst, rhs, 0), CopyDown(m, dst, rhs, dst.size - 1),
          CopySnapshot(m, dst, rhs)}

\* which copy the assignment dst = rhs makes: Span = Span is a memcpy, and so
\* is Slice = Slice when both steps are 1; every other pair copies by element
BulkPath(dst, rhs) ==
    \/ dst.kind = "Span" /\ rhs.kind = "Span"
    \/ dst.kind = "Slice" /\ rhs.kind = "Slice" /\ dst.step = 1 /\ rhs.step = 1

\* the memory the assignment can leave
AssignOutcomes(m, dst, rhs) ==
    IF BulkPath(dst, rhs) THEN Memcpy(m, dst, rhs) ELSE {CopyLoop(m, dst, rhs, 0)}

\* every element the operation touches lies in the buffer
Accessible(view) == \A a \in Cells(view) : InMem(a)

----------------------------------------------------------------------------
\* The arguments the operations of the views are called with.

PtrArgs == 1..MemLen
StepArgs == -1..2
CountArgs == -1..(MemLen + 1)

\* Span(): no storage, size 0
DefaultSpan == Span(NullPtr, 0)

\* the spans over the buffer, and the default-constructed one
SpanArgs ==
    {sp \in {Span(p, n) : p \in PtrArgs, n \in 0..MemLen} : Accessible(sp)}
        \cup {DefaultSpan}

\* the arguments of Slice(Pointer, Size, Step): any size and step, the
\* elements in the buffer; a Slice without elements starts at its first cell
SliceArgs ==
    {sl \in {Slice(p, n, st) : p \in PtrArgs, n \in -1..MemLen, st \in StepArgs} :
        Accessible(sl) /\ (sl.size <= 0 => sl.ptr = 1)}

\* the containers handed to += and to =
OperandArgs ==
    {ViewOperand(v) : v \in {w \in SpanArgs \cup SliceArgs : valid(w) /\ w.ptr # NullPtr}}
        \cup {OwnOperand(k, e) : k \in {"Vector", "List"}, e \in SeqArgs}

\* the operands tried on a receiver: of its size, or one element longer
OperandsFor(view) ==
    {rhs \in OperandArgs : rhs.size \in view.size..(view.size + 1)}

\* what view() of another Slice carries: its pointer and its size
SliceViewArgs == {sl \in SliceArgs : sl.step = 1}

ViewIdle == subject = "View" /\ ~ub /\ ret.op = "none"

\* the call returns (or throws, status "error") leaving the buffer m2 and the
\* receiver L2
ViewDone(op, arg, m2, L2, status, val, ptr, len) ==
    /\ mem' = m2
    /\ L' = L2
    /\ ret' = Result(op, arg, status, val, ptr, len, FALSE, [mem |-> mem, L |-> L])
    /\ ub' = FALSE
    /\ UNCHANGED <<vecVars, auxVars, subject>>

\* a constructor or a rebinding: nothing of the receiver's earlier state is used
ViewMade(op, arg, L2) ==
    /\ mem' = mem
    /\ L' = L2
    /\ ret' = Result(op, arg, "ok", 0, 0, 0, FALSE, [mem |-> mem, L |-> L2])
    /\ ub' = FALSE
    /\ UNCHANGED <<vecVars, auxVars, subject>>

ViewUndefined(op, arg) ==
    /\ ub' = TRUE
    /\ ret' = Result(op, arg, "ub", 0, 0, 0, FALSE, [mem |-> mem, L |-> L])
    /\ UNCHANGED <<viewVars, vecVars, auxVars, subject>>

\* Slice(): no storage, size 0, step 1
DefaultSlice == Slice(NullPtr, 0, 1)

\* no view is bound to the buffer: the variable holds a fresh Span()
Unbound == ViewIdle /\ L = DefaultSpan

\* the view goes out of scope and a fresh Span() takes its place; the buffer
\* keeps its content
Drop ==
    /\ ViewIdle
    /\ L # DefaultSpan
    /\ L' = DefaultSpan
    /\ UNCHANGED <<mem, ret, ub, vecVars, auxVars, subject>>

\* Slice()
NewDefaultSlice ==
    /\ Unbound
    /\ ViewMade("Slice()", 0, DefaultSlice)

\* Span(Pointer, Size)
NewSpan ==
    /\ Unbound
    /\ \E sp \in SpanArgs : ViewMade("Span", sp, sp)

\* Slice(Pointer, Size, Step)
NewSlice ==
    /\ Unbound
    /\ \E sl \in SliceArgs : ViewMade("Slice", sl, sl)

\* Slice(Span)
NewSliceFromSpan ==
    /\ Unbound
    /\ \E sp \in SpanArgs :
          ViewMade("SliceFromSpan", sp, SliceFromSpan(sp))

\* Slice::assign(Pointer, size, step) on a Slice()
SliceAssign ==
    /\ ViewIdle
    /\ L = DefaultSlice
    /\ \E sl \in SliceArgs : ViewMade("slice_assign", sl, sl)

\* Slice::operator=(slice_view) with the view() of another Slice
SliceFromView ==
    /\ ViewIdle
    /\ L.kind = "Slice"
    /\ \E sl \in SliceViewArgs :
          ViewDone("slice_view_assign", sl, mem, SliceAssignView(L, sl), "ok", 0, 0, 0)

\* operator[](index) read through the receiver
IndexRead ==
    /\ ViewIdle
    /\ \E index \in CountArgs :
          IF ~InMem(ElemAddr(L, index))
          THEN ViewUndefined("index_read", index)
          ELSE ViewDone("index_read", index, mem, L, "ok",
                        mem[ElemAddr(L, index)], ElemAddr(L, index), 0)

\* operator[](index) = e
IndexWrite ==
    /\ ViewIdle
    /\ \E index \in CountArgs, e \in Values :
          IF ~InMem(ElemAddr(L, index))
          THEN ViewUndefined("index_write", <<index, e>>)
          ELSE ViewDone("index_write", <<index, e>>,
                        [mem EXCEPT ![ElemAddr(L, index)] = e], L, "ok",
                        e, ElemAddr(L, index), 0)

\* L += rhs: DOMAIN_ERROR_IF(size() != seq.size()), then the loop
AddAssign ==
    /\ ViewIdle
    /\ \E rhs \in {r \in OperandsFor(L) : r.kind # "List"} :
          IF L.size # rhs.size
          THEN ViewDone("add_assign", rhs, mem, L, "error", 0, 0, 0)
          ELSE IF ~Accessible(L)
               THEN ViewUndefined("add_assign", rhs)
               ELSE LET m2 == AddLoop(mem, L, rhs, 0)
                    IN /\ \A a \in 1..MemLen : m2[a] <= MaxVal
                       /\ ViewDone("add_assign", rhs, m2, L, "ok", 0, 0, 0)

\* L = rhs: DOMAIN_ERROR_IF(size() != rhs.size()), then the copy; val tells
\* whether the copy was the memcpy
Assign_ ==
    /\ ViewIdle
    /\ \E rhs \in OperandsFor(L) :
          IF L.size # rhs.size
          THEN ViewDone("assign", rhs, mem, L, "error", FALSE, 0, 0)
          ELSE IF ~Accessible(L)
               THEN ViewUndefined("assign", rhs)
               ELSE \E m2 \in AssignOutcomes(mem, L, rhs) :
                       ViewDone("assign", rhs, m2, L, "ok", BulkPath(L, rhs), 0, 0)

----------------------------------------------------------------------------
\* The queue operations and the sub-views of Span.

\* Span::trim_length
span_trim_length(sp, Length) ==
    IF Length < 0 THEN 0 ELSE IF Length < sp.size THEN Length ELSE sp.size

\* unsafe_pop_back(): return data_[--size_]
unsafe_pop_back(sp) == [sp EXCEPT !.size = @ - 1]
\* unsafe_pop_front() that forgets to advance data_
unsafe_pop_front_stays(sp) == [sp EXCEPT !.size = @ - 1]

\* unsafe_pop_front(): --size_; return *(data_++)
unsafe_pop_front(sp) == [sp EXCEPT !.size = @ - 1, !.ptr = @ + 1]
\* unsafe_pop_back(Count): size_ -= Count; return Span{ data_ + size_, Count }
unsafe_pop_back_n(sp, Count) == [sp EXCEPT !.size = @ - Count]
popped_back_n(sp, Count) == Span(sp.ptr + (sp.size - Count), Count)
\* unsafe_pop_front(Count) that forgets to advance data_
unsafe_pop_front_n_stays(sp, Count) == [sp EXCEPT !.size = @ - Count]

\* unsafe_pop_front(Count): size_ -= Count; data_ += Count;
\* return Span{ data_ - Count, Count }
unsafe_pop_front_n(sp, Count) == [sp EXCEPT !.size = @ - Count, !.ptr = @ + Count]
popped_front_n(sp, Count) == Span(sp.ptr, Count)

\* head(length), tail(length)
span_head(sp, length) == Span(sp.ptr, span_trim_length(sp, length))
span_tail(sp, length) ==
    Span(sp.ptr + sp.size - span_trim_length(sp, length), span_trim_length(sp, length))

SpanIdle == ViewIdle /\ L.kind = "Span"

\* the model follows a span while it lies within one cell of the buffer
Followed(sp) == sp.size <= MemLen + 1 /\ sp.ptr \in 0..(MemLen + 1)

\* pop_back(): DOMAIN_ERROR_IF(size_ <= 0), then unsafe_pop_back()
SpanPopBack ==
    /\ SpanIdle
    /\ IF L.size <= 0
       THEN ViewDone("pop_back", 0, mem, L, "error", 0, 0, 0)
       ELSE IF ~InMem(L.ptr + L.size - 1)
            THEN ViewUndefined("pop_back", 0)
            ELSE ViewDone("pop_back", 0, mem, unsafe_pop_back(L), "ok",
                          mem[L.ptr + L.size - 1], L.ptr + L.size - 1, 0)

\* pop_front(): DOMAIN_ERROR_IF(size_ <= 0), then unsafe_pop_front()
SpanPopFront ==
    /\ SpanIdle
    /\ IF L.size <= 0
       THEN ViewDone("pop_front", 0, mem, L, "error", 0, 0, 0)
       ELSE IF ~InMem(L.ptr)
            THEN ViewUndefined("pop_front", 0)
            ELSE ViewDone("pop_front", 0, mem, unsafe_pop_front(L), "ok",
                          mem[L.ptr], L.ptr, 0)

\* pop_back(Count): DOMAIN_ERROR_IF(size_ < Count), then unsafe_pop_back(Count);
\* ptr and len are the span returned
SpanPopBackN ==
    /\ SpanIdle
    /\ \E Count \in CountArgs :
          IF L.size < Count
          THEN ViewDone("pop_back_n", Count, mem, L, "error", 0, 0, 0)
          ELSE /\ Followed(unsafe_pop_back_n(L, Count))
               /\ ViewDone("pop_back_n", Count, mem, unsafe_pop_back_n(L, Count), "ok", 0,
                           popped_back_n(L, Count).ptr, popped_back_n(L, Count).size)

\* pop_front(Count): DOMAIN_ERROR_IF(size_ < Count), then unsafe_pop_front(Count)
SpanPopFrontN ==
    /\ SpanIdle
    /\ \E Count \in CountArgs :
          IF L.size < Count
          THEN ViewDone("pop_front_n", Count, mem, L, "error", 0, 0, 0)
          ELSE /\ Followed(unsafe_pop_front_n(L, Count))
               /\ ViewDone("pop_front_n", Count, mem, unsafe_pop_front_n(L, Count), "ok", 0,
                           popped_front_n(L, Count).ptr, popped_front_n(L, Count).size)

\* front(): DOMAIN_ERROR_IF(size_ <= 0), then data_[0]
SpanFront ==
    /\ SpanIdle
    /\ IF L.size <= 0
       THEN ViewDone("front", 0, mem, L, "error", 0, 0, 0)
       ELSE IF ~InMem(L.ptr)
            THEN ViewUndefined("front", 0)
            ELSE ViewDone("front", 0, mem, L, "ok", mem[L.ptr], L.ptr, 0)

\* back(): DOMAIN_ERROR_IF(size_ <= 0), then data_[size_ - 1]
SpanBack ==
    /\ SpanIdle
    /\ IF L.size <= 0
       THEN ViewDone("back", 0, mem, L, "error", 0, 0, 0)
       ELSE IF ~InMem(L.ptr + L.size - 1)
            THEN ViewUndefined("back", 0)
            ELSE ViewDone("back", 0, mem, L, "ok",
                          mem[L.ptr + L.size - 1], L.ptr + L.size - 1, 0)

\* head(length): ptr and len are the span returned
SpanHead ==
    /\ SpanIdle
    /\ \E length \in CountArgs :
          ViewDone("head", length, mem, L, "ok", 0,
                   span_head(L, length).ptr, span_head(L, length).size)

\* tail(length)
SpanTail ==
    /\ SpanIdle
    /\ \E length \in CountArgs :
          ViewDone("tail", length, mem, L, "ok", 0,
                   span_tail(L, length).ptr, span_tail(L, length).size)

----------------------------------------------------------------------------
\* Selection from a Vector by a boolean mask and by a sequence of indices.

\* Vector(Capacity): a block of Capacity elements and no element in use
VectorCap(Capacity) == VectorCapSize(Capacity, 0)

\* the entries of a mask: a one-byte integer, true when it is not 0
MaskValues == 0..2

\* the masks tried on a Vector of size Size: as long as it, and one longer
MaskArgs(Size) ==
    UNION {[1..n -> MaskValues] : n \in {Size, Size + 1} \cap (0..(MaxCap + 1))}

\* mz::count adding the entries themselves
RECURSIVE count_adds_values(_)
count_adds_values(sequence) ==
    IF sequence = <<>> THEN 0
    ELSE Head(sequence) + count_adds_values(Tail(sequence))

\* mz::count: result += !!sequence[i] for every i
RECURSIVE count(_)
count(sequence) ==
    IF sequence = <<>> THEN 0
    ELSE (IF Head(sequence) # 0 THEN 1 ELSE 0) + count(Tail(sequence))

\* for (i = 0; i < it.size(); i++) if (it[i]) *Ptr++ = m_data[i]; fill is the
\* distance of Ptr from Res.data()
RECURSIVE MaskLoop(_, _, _, _)
MaskLoop(Res, data, it, i) ==
    IF i >= Len(it) THEN Res
    ELSE IF it[i + 1] # 0
         THEN MaskLoop([Res EXCEPT !.m_store[Res.fill + 1] = data[i + 1],
                                   !.fill = Res.fill + 1], data, it, i + 1)
         ELSE MaskLoop(Res, data, it, i + 1)

\* operator[](BooleanSequence) past its size test, on the elements data:
\* Vector Res(count(it)); Res.expand_to_capacity(); the loop; return Res
select_mask(data, it) ==
    LET Res0 == VectorCap(count(it))
        Res1 == [m_data |-> Res0.m_data, m_store |-> Res0.m_store,
                 m_size |-> Res0.m_cap, m_cap |-> Res0.m_cap, fill |-> 0]
        Res2 == MaskLoop(Res1, data, it, 0)
    IN [m_data |-> Res2.m_data, m_store |-> Res2.m_store,
        m_size |-> Res2.m_size, m_cap |-> Res2.m_cap]

\* b[mask]: INVALID_ARGUMENT_IF(it.size() != size()), then the selection;
\* val is the Vector returned
SelectMask ==
    /\ VecIdle
    /\ \E it \in MaskArgs(vec.m_size) :
          IF Len(it) # vec.m_size
          THEN VecDone("select_mask", it, vec, "error", EmptyVector, 0, 0, FALSE)
          ELSE IF \E i \in 1..Len(it) : it[i] # 0 /\ ~InBlock(vec, i - 1)
               THEN VecUndefined("select_mask", it)
               ELSE \E s \in Concrete(vec.m_store, vec.m_size) :
                       VecDone("select_mask", it, vec, "ok", select_mask(s, it),
                               0, 0, FALSE)
    /\ NoPush

\* the sequences of indices tried on a Vector of size Size: the first and
\* the last element, and one off at either end
IdxArgs(Size) ==
    UNION {[1..n -> {-1, 0, Size - 1, Size} \cap (-1..MaxCap)] : n \in 0..MaxSeq}

\* for (i = 0; i < it.size(); i++) Res[i] = m_data[it[i]]
RECURSIVE IndexLoop(_, _, _, _)
IndexLoop(Res, data, it, i) ==
    IF i >= Len(it) THEN Res
    ELSE IndexLoop([Res EXCEPT !.m_store[i + 1] = data[it[i + 1] + 1]],
                   data, it, i + 1)

\* operator[](IntegralSequence): Vector Res(it.size()); the loop; return Res
select_index(data, it) == IndexLoop(VectorCap(Len(it)), data, it, 0)

\* b[idx]: no test at all; val is the Vector returned
SelectIndex ==
    /\ VecIdle
    /\ \E it \in IdxArgs(vec.m_size) :
          IF \E k \in 1..Len(it) : ~InBlock(vec, it[k])
          THEN VecUndefined("select_index", it)
          ELSE \E s \in Concrete(vec.m_store, Len(vec.m_store)) :
                  VecDone("select_index", it, vec, "ok", select_index(s, it),
                          0, 0, FALSE)
    /\ NoPush

----------------------------------------------------------------------------
\* Moving from another Vector.

\* the block owned by the other Vector, distinct from the block of this one
OtherPtr == 2

\* the Vector rhs moved from: empty, full, and with an unused element
MoveArgs ==
    {EmptyVector,
     [m_data |-> OtherPtr, m_store |-> <<1>>, m_size |-> 1, m_cap |-> 1],
     [m_data |-> OtherPtr, m_store |-> <<0, Uninit>>, m_size |-> 1, m_cap |-> 2]}

\* Vector(Vector&& rhs): take the three fields, reset rhs
move_construct(rhs) == [self |-> rhs, rhs |-> EmptyVector]

\* swap_data(other): std::swap of the three fields
swap_data(self, other) == [self |-> other, other |-> self]

\* operator=(Vector&& rhs) on a distinct rhs: swap_data(rhs)
move_assign(self, rhs) ==
    LET s == swap_data(self, rhs) IN [self |-> s.self, rhs |-> s.other]

\* Vector a(std::move(b)); arg is b before, val is b after, a is the Vector
MoveConstruct ==
    /\ VecIdle
    /\ \E rhs \in MoveArgs :
          LET m == move_construct(rhs)
          IN /\ vec' = m.self
             /\ ret' = Result("move_construct", rhs, "ok", m.rhs, 0, 0, FALSE,
                              EmptyVector)
             /\ ub' = FALSE
             /\ UNCHANGED <<viewVars, auxVars, subject>>
    /\ NoPush

\* a = std::move(b) with b another Vector; arg is b before, val is b after
MoveAssign ==
    /\ VecIdle
    /\ \E rhs \in MoveArgs :
          LET m == move_assign(vec, rhs)
          IN VecDone("move_assign", rhs, m.self, "ok", m.rhs, 0, 0, FALSE)
    /\ NoPush

----------------------------------------------------------------------------
\* mz::Stream over a std::stringstream, and the Vector saved to and loaded
\* from it.  The stream is a sequence of 32-bit words: an int (the size, an
\* element) is one word, a uint64_t label is two, low word first.  g is the
\* get position, in words; fail is the state of the stream after a read ran
\* into the end; images records, for every save, where it began, the tag it
\* was given and the elements it wrote.  The client saves one Vector to a
\* stream and clears the stream before it saves the next.

\* the longest stream written, in words
MaxStream == 7

\* the words of one label
LabelWords == 2

NewStream == [data |-> <<>>, g |-> 0, fail |-> FALSE, images |-> <<>>]

\* the tags save3 and load3 are called with; 0 is the default argument
TagArgs == 0..2

\* write(x) of one int: std::ostream::write appends it unless the stream
\* is in a failed state
WriteWord(st, w) ==
    IF st.fail THEN st ELSE [st EXCEPT !.data = Append(st.data, w)]

\* read(x) of one int: ok says whether a word was extracted, w is that word;
\* at the end of the stream nothing is stored and the stream fails
ReadWord(st) ==
    IF st.fail \/ st.g >= Len(st.data)
    THEN [ok |-> FALSE, w |-> 0, st |-> [st EXCEPT !.fail = TRUE]]
    ELSE [ok |-> TRUE, w |-> st.data[st.g + 1], st |-> [st EXCEPT !.g = st.g + 1]]

\* the low and the high word of a uint64_t below 2^32
LowWord(x) == x
HighWord(x) == 0

\* write_label: if (encoding) write(encoding)
write_label(st, encoding) ==
    IF encoding # 0
    THEN WriteWord(WriteWord(st, LowWord(encoding)), HighWord(encoding))
    ELSE st

\* read_label: x{encoding - 1}; if (encoding) { read(x); return x != encoding; }
\* return false; a read cut short by the end of the stream leaves the rest
\* of x as it was
read_label(st, encoding) ==
    IF encoding # 0
    THEN LET r1 == ReadWord(st)
             r2 == ReadWord(r1.st)
             lo == IF r1.ok THEN r1.w ELSE LowWord(encoding - 1)
             hi == IF r2.ok THEN r2.w ELSE HighWord(encoding - 1)
         IN [mismatch |-> ~(lo = LowWord(encoding) /\ hi = HighWord(encoding)),
             st |-> r2.st]
    ELSE [mismatch |-> FALSE, st |-> st]

\* for (i = 0; i < m_size; i++) ss << m_data[i], on the elements elems
RECURSIVE WriteElements(_, _)
WriteElements(st, elems) ==
    IF elems = <<>> THEN st
    ELSE WriteElements(WriteWord(st, Head(elems)), Tail(elems))

\* the record of a save: st2 is the stream after it, the image begins where
\* the stream st before it ended
Image(st, st2, by, tag, size, elems) ==
    [st2 EXCEPT !.images = Append(st.images,
        [pos |-> Len(st.data), by |-> by, tag |-> tag, size |-> size,
         elems |-> elems])]

\* save writing the size after the elements
save_size_last(st, size, elems) == WriteWord(WriteElements(st, elems), size)

\* save: ss << size_type(m_size), then the elements
save(st, size, elems) == WriteElements(WriteWord(st, size), elems)

\* save3: write_label(Enc); s << L; the elements; write_label(Enc)
save3(st, size, elems, Enc) ==
    write_label(save(write_label(st, Enc), size, elems), Enc)

\* for (i = 0; i < L; i++) ss >> m_data[i]
RECURSIVE ReadElements(_, _, _, _)
ReadElements(v, st, i, Length) ==
    IF i >= Length THEN [v |-> v, st |-> st]
    ELSE LET r == ReadWord(st)
         IN ReadElements(IF r.ok THEN WriteCell(v, i, r.w) ELSE v, r.st,
                         i + 1, Length)

\* load past the read of L: resize(L, false), then the elements
load(v, st, Length) == ReadElements(resize(v, Length, FALSE), st, 0, Length)

\* the stream before the call is part of what the call returns to the model
StreamArg(Enc) == [Enc |-> Enc, stream |-> stream]

StreamDone(op, Enc, v2, st2, val) ==
    /\ vec' = v2
    /\ stream' = st2
    /\ ret' = Result(op, StreamArg(Enc), "ok", val, 0, 0, FALSE, vec)
    /\ ub' = FALSE
    /\ UNCHANGED <<viewVars, subject, stack, live, moreVars>>

StreamUndefined(op, Enc) ==
    /\ ub' = TRUE
    /\ ret' = Result(op, StreamArg(Enc), "ub", 0, 0, 0, FALSE, vec)
    /\ UNCHANGED <<vec, stream, viewVars, subject, stack, live, moreVars>>

\* v.save(ss): undefined when elements outside the block are read
Save ==
    /\ VecIdle
    /\ stream.images = <<>>
    /\ Len(stream.data) + 1 + Max(vec.m_size, 0) <= MaxStream
    /\ IF vec.m_size > Len(vec.m_store)
       THEN StreamUndefined("save", 0)
       ELSE \E s \in Concrete(vec.m_store, vec.m_size) :
               LET elems == SubSeq(s, 1, vec.m_size)
               IN StreamDone("save", 0, vec,
                             Image(stream, save(stream, vec.m_size, elems),
                                   "save", 0, vec.m_size, elems), 0)
    /\ NoPush

\* v.save3(s, Enc)
Save3 ==
    /\ VecIdle
    /\ stream.images = <<>>
    /\ \E Enc \in TagArgs :
          /\ Len(stream.data) + 1 + Max(vec.m_size, 0)
                + (IF Enc # 0 THEN 2 * LabelWords ELSE 0) <= MaxStream
          /\ IF vec.m_size > Len(vec.m_store)
             THEN StreamUndefined("save3", Enc)
             ELSE \E s \in Concrete(vec.m_store, vec.m_size) :
                     LET elems == SubSeq(s, 1, vec.m_size)
                     IN StreamDone("save3", Enc, vec,
                                   Image(stream,
                                         save3(stream, vec.m_size, elems, Enc),
                                         "save3", Enc, vec.m_size, elems), 0)
    /\ NoPush

\* StringStream::clear(): string_handle_.str(std::string()) empties the
\* buffer and leaves the state flags as they are
StreamClear ==
    /\ VecIdle
    /\ stream.data # <<>>
    /\ stream' = [NewStream EXCEPT !.fail = stream.fail]
    /\ UNCHANGED <<vec, ret, ub, viewVars, subject, stack, live, moreVars>>
    /\ NoPush

\* w.load(ss): size_type L; ss >> L leaves L indeterminate at the end of the
\* stream, and resize(L, false) reads it
Load ==
    /\ VecIdle
    /\ LET r == ReadWord(stream)
       IN IF ~r.ok
          THEN StreamUndefined("load", 0)
          ELSE LET m == load(vec, r.st, r.w)
               IN StreamDone("load", 0, m.v, m.st, 0)
    /\ NoPush

\* w.load3(s, Enc); val is the bool returned
Load3 ==
    /\ VecIdle
    /\ \E Enc \in TagArgs :
          LET l1 == read_label(stream, Enc)
              r == ReadWord(l1.st)
          IN IF l1.mismatch
             THEN StreamDone("load3", Enc, vec, l1.st, TRUE)
             ELSE IF ~r.ok
                  THEN StreamUndefined("load3", Enc)
                  ELSE LET m == load(vec, r.st, r.w)
                           l2 == read_label(m.st, Enc)
                       IN StreamDone("load3", Enc, m.v, l2.st, l2.mismatch)
    /\ NoPush

----------------------------------------------------------------------------
\* mz::Stack: a stack of addresses in a block of m_cap slots, m_size of them
\* in use; a slot holds an address or null.  live lists, oldest first, the
\* pushes whose address is still on the stack: the address and the position
\* push returned for it.

\* the deepest stack built, and the objects whose addresses are pushed
MaxStack == 4
MaxAddr == 2

Addrs == 1..MaxAddr

\* no Timer made yet
NoTimer == [last_interval_ns |-> 0, total_elapsed_ns |-> 0, last_timestamp_ns |-> 0,
            clock |-> 0, made |-> 0]

\* Stack(): no block
NewStack == [m_data |-> <<>>, m_size |-> 0, m_cap |-> 0]

\* resize_in_place: a block of m_cap * 2 + 2 slots, the m_size slots in use
\* copied into it
resize_in_place(s) ==
    [m_data |-> [i \in 1..(s.m_cap * 2 + 2) |->
                    IF i <= s.m_size THEN s.m_data[i] ELSE Uninit],
     m_size |-> s.m_size,
     m_cap |-> s.m_cap * 2 + 2]

\* push(reference elem): grow when full, store at m_size++, return the position
push(s, elem) ==
    LET s1 == IF s.m_size = s.m_cap THEN resize_in_place(s) ELSE s
    IN [pos |-> s1.m_size,
        s |-> [s1 EXCEPT !.m_size = s1.m_size + 1,
                         !.m_data[s1.m_size + 1] = elem]]

\* pop() giving up at the first null slot under the top
pop_stops_at_null(s) ==
    IF s.m_size > 0
    THEN [res |-> s.m_data[s.m_size],
          s |-> [s EXCEPT !.m_size = s.m_size - 1, !.m_data[s.m_size] = NullPtr]]
    ELSE [res |-> NullPtr, s |-> s]

\* pop(): while (m_size > 0) { --m_size; res = m_data[m_size];
\* m_data[m_size] = nullptr; if (res) return res; } return res;
RECURSIVE pop(_)
pop(s) ==
    IF s.m_size > 0
    THEN LET res == s.m_data[s.m_size]
             s1 == [s EXCEPT !.m_size = s.m_size - 1, !.m_data[s.m_size] = NullPtr]
         IN IF res # NullPtr THEN [res |-> res, s |-> s1] ELSE pop(s1)
    ELSE [res |-> NullPtr, s |-> s]

\* pop(index): inside [0, m_size) take the slot and null it, else nullptr
pop_at(s, index) ==
    IF index >= 0 /\ index < s.m_size
    THEN [res |-> s.m_data[index + 1], s |-> [s EXCEPT !.m_data[index + 1] = NullPtr]]
    ELSE [res |-> NullPtr, s |-> s]

StackIdle == subject = "Stack" /\ ~ub /\ ret.op = "none"

\* the pushes left when the latest is taken off
WithoutLast(pushes) ==
    IF pushes = <<>> THEN <<>> ELSE SubSeq(pushes, 1, Len(pushes) - 1)

\* the pushes left when the one push put at position index is removed
WithoutPos(pushes, index) == SelectSeq(pushes, LAMBDA p : p.pos # index)

StackDone(op, arg, s2, live2, val) ==
    /\ stack' = s2
    /\ live' = live2
    /\ ret' = Result(op, arg, "ok", val, 0, 0, FALSE, [stack |-> stack, live |-> live])
    /\ UNCHANGED <<vec, ub, pushed, reallocs, viewVars, stream, moreVars, subject>>

\* operator[](index): index < m_size ? m_data[index] : nullptr; the index is
\* signed and only compared with the size, so a negative one reads in
\* front of the block
StackIndex ==
    /\ StackIdle
    /\ \E index \in -1..MaxStack :
          IF index < stack.m_size
          THEN IF index < 0
               THEN /\ ub' = TRUE
                    /\ ret' = Result("stack_index", index, "ub", 0, 0, 0, FALSE,
                                     [stack |-> stack, live |-> live])
                    /\ UNCHANGED <<vec, pushed, reallocs, viewVars, auxVars, subject>>
               ELSE StackDone("stack_index", index, stack, live,
                              stack.m_data[index + 1])
          ELSE StackDone("stack_index", index, stack, live, NullPtr)

\* push(elem) of the object at address elem; val is the position returned
StackPush ==
    /\ StackIdle
    /\ stack.m_size < MaxStack
    /\ \E elem \in Addrs :
          LET p == push(stack, elem)
          IN StackDone("stack_push", elem, p.s,
                       Append(live, [addr |-> elem, pos |-> p.pos]), p.pos)

\* pop(); val is the address returned
StackPop ==
    /\ StackIdle
    /\ LET p == pop(stack)
       IN StackDone("stack_pop", 0, p.s, WithoutLast(live), p.res)

\* pop(index); val is the address returned
StackPopAt ==
    /\ StackIdle
    /\ \E index \in -1..MaxStack :
          LET p == pop_at(stack, index)
          IN StackDone("stack_pop_at", index, p.s, WithoutPos(live, index), p.res)

----------------------------------------------------------------------------
\* Span::count_filter_front and pop_front_filter.  A predicate is the set of
\* the values it accepts; positions are counted from begin().

\* the predicates and the step sizes the filter operations are called with
PredArgs == SUBSET Values
FilterStepArgs == 0..MemLen

\* F(*Ptr) for Ptr = begin() + i
Holds(sp, m, F, i) == m[sp.ptr + i] \in F

\* while (Ptr < End && F(*Ptr)) { Ptr += Step; }
RECURSIVE Stride(_, _, _, _, _, _)
Stride(sp, m, F, Ptr, End, Step) ==
    IF Ptr < End /\ Holds(sp, m, F, Ptr)
    THEN Stride(sp, m, F, Ptr + Step, End, Step)
    ELSE Ptr

\* count_filter_front: Step clamped to [1, size()], the strided scan, then
\* the scan by one from the last stride up to the element that stopped it
count_filter_front(sp, m, F, StepSize) ==
    LET Step1 == IF StepSize > 1 THEN StepSize ELSE 1
        Step == IF Step1 < sp.size THEN Step1 ELSE sp.size
        Ptr1 == Stride(sp, m, F, 0, sp.size, Step)
        End == IF Ptr1 < sp.size THEN Ptr1 ELSE sp.size
        Ptr2 == (IF Ptr1 < sp.size THEN Ptr1 + 1 ELSE Ptr1) - Step
        Ptr3 == IF Ptr2 < 0 THEN 0 ELSE Ptr2
    IN Stride(sp, m, F, Ptr3, End, 1)

\* count_filter_front(F, StepSize); val is the count returned
CountFilterFront ==
    /\ SpanIdle
    /\ \E F \in PredArgs, StepSize \in FilterStepArgs :
          IF ~Accessible(L)
          THEN ViewUndefined("count_filter_front", <<F, StepSize>>)
          ELSE ViewDone("count_filter_front", <<F, StepSize>>, mem, L, "ok",
                        count_filter_front(L, mem, F, StepSize), 0, 0)

\* pop_front_filter(pred, step_size):
\* unsafe_pop_front(count_filter_front(pred, step_size)); ptr and len are
\* the Span returned
PopFrontFilter ==
    /\ SpanIdle
    /\ \E F \in PredArgs, StepSize \in FilterStepArgs :
          IF ~Accessible(L)
          THEN ViewUndefined("pop_front_filter", <<F, StepSize>>)
          ELSE LET Count == count_filter_front(L, mem, F, StepSize)
               IN ViewDone("pop_front_filter", <<F, StepSize>>, mem,
                           unsafe_pop_front_n(L, Count), "ok", Count,
                           popped_front_n(L, Count).ptr, popped_front_n(L, Count).size)

----------------------------------------------------------------------------
\* mz::range_sign over an array of elements, each given by the sign the
\* predicate returns for it.  Pointers are positions counted from the first
\* element; seen collects the positions the predicate was evaluated at.

\* the longest range searched
MaxRange == 7

Signs == {-1, 0, 1}

\* the ranges ordered as the function expects: negative, then zero, then
\* positive
OrderedRanges ==
    {a \in UNION {[1..n -> Signs] : n \in 0..MaxRange} :
        \A i \in 1..Len(a), j \in 1..Len(a) : i < j => a[i] <= a[j]}

NoRange == [arr |-> <<>>, first |-> 0, last |-> 0, count |-> 0, seen |-> {},
            done |-> FALSE]

\* predicate(*it); outside the array any sign may come back, 0 stands for it
SignAt(arr, it) == IF it + 1 \in 1..Len(arr) THEN arr[it + 1] ELSE 0

\* the first loop treating a zero like a negative element
RECURSIVE FindFirst0_skips_zero(_, _)
FindFirst0_skips_zero(arr, s) ==
    IF s.count0 > 0
    THEN LET step == s.count0 \div 2
             it == s.first0 + step
             seen == s.seen \cup {it}
         IN IF SignAt(arr, it) <= 0
            THEN FindFirst0_skips_zero(arr,
                    [first0 |-> it + 1, count0 |-> s.count0 - (step + 1),
                     first1 |-> Max(s.first1, it + 1), last1 |-> s.last1,
                     seen |-> seen])
            ELSE FindFirst0_skips_zero(arr,
                    [first0 |-> s.first0, count0 |-> step,
                     first1 |-> Max(s.first1, s.first0), last1 |-> it,
                     seen |-> seen])
    ELSE s

\* the first loop: while (count0 > 0) { it = first0 + count0 / 2; ... }
RECURSIVE FindFirst0(_, _)
FindFirst0(arr, s) ==
    IF s.count0 > 0
    THEN LET step == s.count0 \div 2
             it == s.first0 + step
             sign == SignAt(arr, it)
             seen == s.seen \cup {it}
         IN IF sign < 0
            THEN FindFirst0(arr,
                    [first0 |-> it + 1, count0 |-> s.count0 - (step + 1),
                     first1 |-> Max(s.first1, it + 1), last1 |-> s.last1,
                     seen |-> seen])
            ELSE IF sign = 0
            THEN FindFirst0(arr,
                    [first0 |-> s.first0, count0 |-> step,
                     first1 |-> Max(s.first1, it + 1), last1 |-> s.last1,
                     seen |-> seen])
            ELSE FindFirst0(arr,
                    [first0 |-> s.first0, count0 |-> step,
                     first1 |-> Max(s.first1, s.first0), last1 |-> it,
                     seen |-> seen])
    ELSE s

\* the second loop: while (count1 > 0) { it = first1 + count1 / 2; ... }
RECURSIVE FindFirst1(_, _)
FindFirst1(arr, s) ==
    IF s.count1 > 0
    THEN LET step == s.count1 \div 2
             it == s.first1 + step
             seen == s.seen \cup {it}
         IN IF SignAt(arr, it) <= 0
            THEN FindFirst1(arr, [first1 |-> it + 1,
                                  count1 |-> s.count1 - (step + 1), seen |-> seen])
            ELSE FindFirst1(arr, [first1 |-> s.first1, count1 |-> step,
                                  seen |-> seen])
    ELSE s

\* range_sign(first, last, predicate): first and last are updated, the
\* difference is returned
range_sign(arr, first, last) ==
    LET a == FindFirst0(arr, [first0 |-> first, count0 |-> last - first,
                              first1 |-> first, last1 |-> last, seen |-> {}])
        b == FindFirst1(arr, [first1 |-> a.first1, count1 |-> a.last1 - a.first1,
                              seen |-> a.seen])
    IN [arr |-> arr, first |-> a.first0, last |-> b.first1,
        count |-> b.first1 - a.first0, seen |-> b.seen, done |-> TRUE]

\* the call on the whole array
RangeSign ==
    /\ subject = "Range"
    /\ ~range.done
    /\ range' = range_sign(range.arr, range.first, range.last)
    /\ UNCHANGED <<subject, vec, ret, ub, pushed, reallocs, viewVars, stream,
                   stack, live, timer>>

----------------------------------------------------------------------------
\* Comparison of two Vectors.

\* the right operand: the Vector itself, or another Vector holding seq
EqualsArgs ==
    {[same |-> TRUE, seq |-> <<>>]} \cup {[same |-> FALSE, seq |-> r] : r \in SeqArgs}

\* the loop of operator== over stores ls and rs, from element i on;
\* "ub" when an element outside a block is read
RECURSIVE EqualsLoop(_, _, _, _)
EqualsLoop(ls, rs, i, nL) ==
    IF i >= nL THEN "true"
    ELSE IF i + 1 > Len(ls) \/ i + 1 > Len(rs) THEN "ub"
    ELSE IF ls[i + 1] # rs[i + 1] THEN "false"
    ELSE EqualsLoop(ls, rs, i + 1, nL)

\* operator==(lhs, rhs); same tells that both are one object
equals(ls, nL, rs, nR, same) ==
    IF same THEN "false"
    ELSE IF nL # nR THEN "false"
    ELSE EqualsLoop(ls, rs, 0, nL)

\* vec == rhs; arg is the right operand, val the result
VecEquals ==
    /\ VecIdle
    /\ \E a \in EqualsArgs :
          LET rhs == IF a.same THEN vec ELSE VectorFromSeq(a.seq)
          IN \E ls \in Concrete(vec.m_store, vec.m_size) :
                LET rs == IF a.same THEN ls ELSE rhs.m_store
                    r == equals(ls, vec.m_size, rs, rhs.m_size, a.same)
                IN IF r = "ub"
                   THEN VecUndefined("equals", a)
                   ELSE VecDone("equals", a, vec, "ok", r = "true", 0, 0, FALSE)
    /\ NoPush

----------------------------------------------------------------------------
\* The sub-views front(Count) and back(Count) of Span.

\* the calls the stack has room for
MaxDepth == 3

\* front(Count) and back(Count): DOMAIN_ERROR_IF(size_ < Count), then
\* const_cast<Span*>(this)->front(Count), which is the function itself; the
\* calls nest until the stack is used up
RECURSIVE span_sub(_, _, _)
span_sub(sp, Count, depth) ==
    IF sp.size < Count THEN "error"
    ELSE IF depth >= MaxDepth THEN "overflow"
    ELSE span_sub(sp, Count, depth + 1)

\* front(Count)
SpanFrontN ==
    /\ SpanIdle
    /\ \E Count \in CountArgs :
          IF span_sub(L, Count, 0) = "error"
          THEN ViewDone("front_n", Count, mem, L, "error", 0, 0, 0)
          ELSE ViewUndefined("front_n", Count)

\* back(Count)
SpanBackN ==
    /\ SpanIdle
    /\ \E Count \in CountArgs :
          IF span_sub(L, Count, 0) = "error"
          THEN ViewDone("back_n", Count, mem, L, "error", 0, 0, 0)
          ELSE ViewUndefined("back_n", Count)

----------------------------------------------------------------------------
\* XA, a Vector of int with its own move assignment.  The receiver is vec,
\* the other XA is given with the call.

\* the XA moved from: every capacity, every size resize() can leave in it
XAArgs ==
    {[m_data |-> IF c = 0 THEN NullPtr ELSE OtherPtr, m_store |-> st, m_size |-> n,
      m_cap |-> c] : c \in {0, 1, MaxCap}, n \in {-1, 0, 1, MaxCap},
                     st \in {[i \in 1..MaxCap |-> 0], [i \in 1..MaxCap |-> i % 2],
                             <<1>>, <<>>}}

\* memcpy(data(), rhs.data(), sizeof(value_type) * size()) into self
xa_copy(self, rhs) ==
    [self EXCEPT !.m_store =
        [i \in 1..Len(self.m_store) |->
            IF i <= self.m_size THEN rhs.m_store[i] ELSE self.m_store[i]]]

\* the copy runs over the end of a block, or its length is negative
xa_move_assignUB(self, rhs) ==
    /\ ~(self.m_cap <= rhs.m_cap)
    /\ LET r == resize(self, rhs.m_size, FALSE)
       IN r.m_size < 0 \/ r.m_size > Len(r.m_store) \/ r.m_size > Len(rhs.m_store)

\* the move assignment that swaps whatever the capacities are
xa_move_assign_swaps(self, rhs) ==
    LET s == swap_data(self, rhs) IN [self |-> s.self, rhs |-> s.other]

\* XA::operator=(XA&& rhs) on a distinct rhs: swap when capacity() <=
\* rhs.capacity(), else resize(rhs.size(), false) and memcpy
xa_move_assign(self, rhs) ==
    IF self.m_cap <= rhs.m_cap
    THEN LET s == swap_data(self, rhs) IN [self |-> s.self, rhs |-> s.other]
    ELSE [self |-> xa_copy(resize(self, rhs.m_size, FALSE), rhs), rhs |-> rhs]

\* a = std::move(b); arg is b before, val is b after, realloc tells whether
\* a block was allocated
XAMoveAssign ==
    /\ VecIdle
    /\ \E rhs \in {x \in XAArgs : Len(x.m_store) = x.m_cap} :
          IF xa_move_assignUB(vec, rhs)
          THEN /\ ub' = TRUE
               /\ ret' = Result("xa_move_assign", rhs, "ub", rhs, 0, 0, FALSE, vec)
               /\ vec' = vec
               /\ UNCHANGED <<viewVars, auxVars, subject>>
          ELSE LET m == xa_move_assign(vec, rhs)
               IN VecDone("xa_move_assign", rhs, m.self, "ok", m.rhs, 0, 0,
                          ~(vec.m_cap <= rhs.m_cap) /\ vec.m_cap < rhs.m_size)
    /\ NoPush

----------------------------------------------------------------------------
\* mz::Timer under a clock that never runs backwards.  clock is what now()
\* returns, made the time the Timer was constructed at.

\* the last reading of the clock
MaxClock == 5

\* the largest total followed
MaxTotal == 12

\* Timer() at time t: the intervals are 0, the timestamp is now()
NewTimer(t) ==
    [last_interval_ns |-> 0, total_elapsed_ns |-> 0, last_timestamp_ns |-> t,
     clock |-> t, made |-> t]

\* reset(): last_interval_ns = 0; last_timestamp_ns = now()
reset(t) == [t EXCEPT !.last_interval_ns = 0, !.last_timestamp_ns = t.clock]

\* stamp(): the interval since last_timestamp_ns is stored and added to the
\* total
stamp(t) ==
    [t EXCEPT !.last_interval_ns = t.clock - t.last_timestamp_ns,
              !.total_elapsed_ns = @ + (t.clock - t.last_timestamp_ns)]

TimerFrame ==
    UNCHANGED <<subject, vec, ret, ub, pushed, reallocs, viewVars, stream, stack,
                live, range>>

\* time passes
Tick ==
    /\ subject = "Timer"
    /\ timer.clock < MaxClock
    /\ timer' = [timer EXCEPT !.clock = @ + 1]
    /\ TimerFrame

Stamp ==
    /\ subject = "Timer"
    /\ stamp(timer).total_elapsed_ns <= MaxTotal
    /\ timer' = stamp(timer)
    /\ TimerFrame

Reset ==
    /\ subject = "Timer"
    /\ timer' = reset(timer)
    /\ TimerFrame

----------------------------------------------------------------------------
\* The program: one container, Vector or view, and the calls made on it.

NoResult == Result("none", 0, "ok", 0, 0, 0, FALSE, EmptyVector)

\* the caller has looked at the result and goes on to the next call
Discard ==
    /\ ~ub
    /\ ret.op # "none"
    /\ ret' = NoResult
    /\ UNCHANGED <<subject, vec, ub, pushed, reallocs, mem, L, auxVars>>

\* Vector(): no block, size 0, capacity 0
InitVector ==
    /\ subject = "Vector"
    /\ vec = EmptyVector
    /\ ret = NoResult
    /\ ub = FALSE
    /\ pushed = <<>>
    /\ reallocs = 0
    /\ mem = [a \in 1..MemLen |-> 0]
    /\ L = DefaultSpan
    /\ stream = NewStream
    /\ stack = NewStack
    /\ live = <<>>
    /\ range = NoRange
    /\ timer = NoTimer

\* a buffer of any content, and Span() not yet bound to it
InitView ==
    /\ subject = "View"
    /\ vec = EmptyVector
    /\ ret = NoResult
    /\ ub = FALSE
    /\ pushed = <<>>
    /\ reallocs = 0
    /\ mem \in [1..MemLen -> Values]
    /\ L = DefaultSpan
    /\ stream = NewStream
    /\ stack = NewStack
    /\ live = <<>>
    /\ range = NoRange
    /\ timer = NoTimer

\* Stack(): nothing pushed
InitStack ==
    /\ subject = "Stack"
    /\ vec = EmptyVector
    /\ ret = NoResult
    /\ ub = FALSE
    /\ pushed = <<>>
    /\ reallocs = 0
    /\ mem = [a \in 1..MemLen |-> 0]
    /\ L = DefaultSpan
    /\ stream = NewStream
    /\ stack = NewStack
    /\ live = <<>>
    /\ range = NoRange
    /\ timer = NoTimer

\* an ordered array, and first and last at its ends
InitRange ==
    /\ subject = "Range"
    /\ vec = EmptyVector
    /\ ret = NoResult
    /\ ub = FALSE
    /\ pushed = <<>>
    /\ reallocs = 0
    /\ mem = [a \in 1..MemLen |-> 0]
    /\ L = DefaultSpan
    /\ stream = NewStream
    /\ stack = NewStack
    /\ live = <<>>
    /\ range \in {[NoRange EXCEPT !.arr = a, !.last = Len(a)] : a \in OrderedRanges}
    /\ timer = NoTimer

\* a Timer constructed at time 0 or 1
InitTimer ==
    /\ subject = "Timer"
    /\ vec = EmptyVector
    /\ ret = NoResult
    /\ ub = FALSE
    /\ pushed = <<>>
    /\ reallocs = 0
    /\ mem = [a \in 1..MemLen |-> 0]
    /\ L = DefaultSpan
    /\ stream = NewStream
    /\ stack = NewStack
    /\ live = <<>>
    /\ range = NoRange
    /\ timer \in {NewTimer(t) : t \in 0..1}

Init == InitVector \/ InitView

Next ==
    \/ Construct \/ Reserve \/ ReserveExtra
    \/ ReserveAndClear \/ ReserveAndResize \/ Resize \/ ResizeAndInitialize
    \/ ResizeAndClear \/ Enlarge \/ ShrinkToFit \/ Clear \/ Clean
    \/ ExpandToCapacity \/ PushBack \/ UnsafePushBack \/ PopBack \/ Append_
    \/ AssignVector \/ AssignSeq \/ Unique \/ Front \/ Back \/ At
    \/ Head_ \/ Tail_ \/ VecAddAssign \/ SelectMask \/ SelectIndex
    \/ MoveConstruct \/ MoveAssign \/ AppendSpan
    \/ Drop \/ NewDefaultSlice \/ NewSpan \/ NewSlice \/ NewSliceFromSpan \/ SliceAssign \/ SliceFromView
    \/ IndexRead \/ IndexWrite \/ AddAssign \/ Assign_
    \/ SpanPopBack \/ SpanPopFront \/ SpanPopBackN \/ SpanPopFrontN
    \/ SpanFront \/ SpanBack \/ SpanHead \/ SpanTail
    \/ Discard

Spec == Init /\ [][Next]_vars

\* the calls on a Vector alone
NextVector ==
    \/ Construct \/ Reserve \/ ReserveExtra
    \/ ReserveAndClear \/ ReserveAndResize \/ Resize \/ ResizeAndInitialize
    \/ ResizeAndClear \/ Enlarge \/ ShrinkToFit \/ Clear \/ Clean
    \/ ExpandToCapacity \/ PushBack \/ UnsafePushBack \/ PopBack \/ Append_
    \/ AssignVector \/ AssignSeq \/ Unique \/ Front \/ Back \/ At
    \/ Head_ \/ Tail_ \/ VecAddAssign \/ SelectMask \/ SelectIndex
    \/ MoveConstruct \/ MoveAssign \/ AppendSpan
    \/ Discard

SpecVector == InitVector /\ [][NextVector]_vars

\* the calls on the views alone
NextView ==
    \/ Drop \/ NewDefaultSlice \/ NewSpan \/ NewSlice \/ NewSliceFromSpan \/ SliceAssign \/ SliceFromView
    \/ IndexRead \/ IndexWrite \/ AddAssign \/ Assign_
    \/ SpanPopBack \/ SpanPopFront \/ SpanPopBackN \/ SpanPopFrontN
    \/ SpanFront \/ SpanBack \/ SpanHead \/ SpanTail
    \/ Discard

SpecView == InitView /\ [][NextView]_vars

\* push_back after push_back on a Vector that starts empty; pushed keeps the
\* values pushed and reallocs counts the calls that moved the block
PushOnly ==
    /\ subject = "Vector"
    /\ ~ub
    /\ Len(pushed) < MaxPush
    /\ \E e \in Values :
          /\ push_back(e)
          /\ pushed' = Append(pushed, e)
          /\ reallocs' = reallocs + (IF ret'.realloc THEN 1 ELSE 0)

NextPush == PushOnly

SpecPush == InitVector /\ [][NextPush]_vars

\* a Vector of any shape saved to and loaded from one stream
NextStream ==
    \/ Construct \/ AssignVector \/ Save \/ Save3 \/ Load \/ Load3 \/ StreamClear
    \/ Discard

SpecStream == InitVector /\ [][NextStream]_vars

\* pushes and pops on one Stack
NextStack == StackPush \/ StackPop \/ StackPopAt \/ StackIndex \/ Discard

SpecStack == InitStack /\ [][NextStack]_vars

\* Vectors built and compared
NextCompare ==
    \/ Construct \/ AssignSeq \/ PushBack \/ PopBack \/ VecEquals
    \/ Discard

SpecCompare == InitVector /\ [][NextCompare]_vars

\* Spans made and their sub-views taken
NextSub ==
    \/ NewSpan \/ Drop \/ SpanPopFront \/ SpanFrontN \/ SpanBackN
    \/ Discard

SpecSub == InitView /\ [][NextSub]_vars

\* an XA filled, resized and move-assigned
NextXA ==
    \/ PushBack \/ PopBack \/ Resize \/ XAMoveAssign
    \/ Discard

SpecXA == InitVector /\ [][NextXA]_vars

\* a Timer stamped and reset while time passes
NextTimer == Tick \/ Stamp \/ Reset

SpecTimer == InitTimer /\ [][NextTimer]_vars

\* the calls that may or may not move the block of the Vector
NextBlock ==
    \/ Construct \/ Reserve \/ Resize \/ Clear \/ PushBack \/ PopBack
    \/ ShrinkToFit \/ Unique \/ AssignSeq \/ CopyAssign
    \/ Discard

SpecBlock == InitVector /\ [][NextBlock]_vars

\* the checked calls at the ends of a Vector and of a Span, on every Vector
\* and Span the constructors and the writes make
NextEnds ==
    \/ Construct \/ AssignSeq \/ PushBack \/ PopBack \/ Front \/ Back
    \/ Drop \/ NewSpan \/ IndexWrite
    \/ SpanPopBack \/ SpanPopFront \/ SpanFront \/ SpanBack
    \/ Discard

SpecEnds == Init /\ [][NextEnds]_vars

\* range_sign on every ordered array
NextRange == RangeSign

SpecRange == InitRange /\ [][NextRange]_vars

\* the filter operations on Spans over the buffer
NextFilter ==
    \/ NewSpan \/ Drop \/ CountFilterFront \/ PopFrontFilter \/ Discard

SpecFilter == InitView /\ [][NextFilter]_vars

----------------------------------------------------------------------------
\* Properties of the Vector.

\* C1: in every state a Vector reaches through its public operations,
\* 0 <= size() <= capacity(), and data() is not null when capacity() > 0.
C1_CapacityInvariant ==
    (subject = "Vector" /\ ~ub) =>
        /\ 0 <= vec.m_size
        /\ vec.m_size <= vec.m_cap
        /\ (vec.m_cap > 0 => vec.m_data # NullPtr)

\* the least power of two that is at least n
LeastPowerOfTwo(n) ==
    CHOOSE c \in {2 ^ j : j \in 0..(MaxPush + 1)} :
        c >= n /\ \A d \in {2 ^ j : j \in 0..(MaxPush + 1)} : d >= n => c <= d

\* C2: k calls of push_back on an empty Vector leave size() = k, capacity()
\* = 0 for k = 0 and else the least power of two >= max(k, 2), element i the
\* i-th value pushed, and log2(capacity()) reallocations; a call reallocates
\* only when size() = capacity() before it, and then to max(2, 2 * capacity()).
C2_PushBackGrowth ==
    LET k == Len(pushed)
    IN /\ ~ub
       /\ vec.m_size = k
       /\ vec.m_cap = (IF k = 0 THEN 0 ELSE LeastPowerOfTwo(Max(k, 2)))
       /\ (IF k = 0 THEN reallocs = 0 ELSE 2 ^ reallocs = vec.m_cap)
       /\ \A i \in 1..k : vec.m_store[i] = pushed[i]
       /\ k > 0 =>
            /\ ret.op = "push_back" /\ ret.status = "ok"
            /\ ret.realloc => /\ ret.old.m_size = ret.old.m_cap
                              /\ vec.m_cap = Max(2, 2 * ret.old.m_cap)
            /\ ~ret.realloc => vec.m_cap = ret.old.m_cap

\* five pushes: the fifth found the block of four full and moved to one of eight
C2_Witness ==
    /\ Len(pushed) = 5
    /\ ret.realloc
    /\ vec.m_cap = 8
    /\ reallocs = 3

\* C8 on a Vector: front(), back() and pop_back() fail on an empty Vector and
\* leave it as it was; on a non-empty one front()/back() return the
\* first/last element and change nothing, pop_back() returns the last element
\* and takes exactly one off the size.
C8_Vector ==
    (subject = "Vector" /\ ~ub /\ ret.op \in {"front", "back", "pop_back"}) =>
        /\ ret.old.m_size = 0 => ret.status = "error" /\ vec = ret.old
        /\ ret.old.m_size >= 1 =>
             /\ ret.status = "ok"
             /\ ret.val \in ReadCell(ret.old,
                                     IF ret.op = "front" THEN 0 ELSE ret.old.m_size - 1)
             /\ ret.op \in {"front", "back"} => vec = ret.old
             /\ ret.op = "pop_back" =>
                   vec = [ret.old EXCEPT !.m_size = ret.old.m_size - 1]

\* C8 on a Span: the four checked calls fail on an empty Span and leave
\* pointer and size as they were; on a non-empty one they return the first
\* (front, pop_front) or last (back, pop_back) element, and the pops take
\* exactly that element off the view.
C8_Span ==
    (subject = "View" /\ ~ub /\ ret.op \in {"front", "back", "pop_front", "pop_back"}) =>
        LET o == ret.old.L
            first == ret.op \in {"front", "pop_front"}
        IN /\ mem = ret.old.mem
           /\ o.size = 0 => ret.status = "error" /\ L = o
           /\ o.size >= 1 =>
                /\ ret.status = "ok"
                /\ ret.ptr = (IF first THEN o.ptr ELSE o.ptr + o.size - 1)
                /\ ret.val = mem[ret.ptr]
                /\ ret.op \in {"front", "back"} => L = o
                /\ ret.op = "pop_front" => L = Span(o.ptr + 1, o.size - 1)
                /\ ret.op = "pop_back" => L = Span(o.ptr, o.size - 1)

\* C8: checked front/back/pop_front/pop_back on Span and front/back/pop_back
\* on Vector fail on an empty container without changing it, and on a
\* non-empty one return the first/last element, the pops shrinking it by one.
C8_CheckedEnds == C8_Vector /\ C8_Span

\* pop_front() took the first of two elements off a Span
C8_Witness ==
    /\ subject = "View" /\ ret.op = "pop_front" /\ ret.status = "ok"
    /\ ret.old.L.size = 2 /\ L.size = 1 /\ L.ptr = ret.old.L.ptr + 1

\* C9: Vector::at(index) fails for every index outside [0, size()), index =
\* size() and the negative ones included, and returns element index for
\* every index inside.
C9_AtChecksRange ==
    (subject = "Vector" /\ ~ub /\ ret.op = "at") =>
        IF 0 <= ret.arg /\ ret.arg < ret.old.m_size
        THEN ret.status = "ok" /\ ret.ptr = ret.arg
             /\ ret.val \in ReadCell(ret.old, ret.arg)
        ELSE ret.status = "error"

\* C10 on a Vector: head(n) is the first min(max(n, 0), size()) elements,
\* tail(n) the last that many; the Vector is unchanged and nothing fails.
C10_Vector ==
    (subject = "Vector" /\ ~ub /\ ret.op \in {"head", "tail"}) =>
        LET n == Min(Max(ret.arg, 0), ret.old.m_size)
        IN /\ ret.status = "ok"
           /\ vec = ret.old
           /\ ret.len = n
           /\ ret.ptr = (IF ret.op = "head" THEN 0 ELSE ret.old.m_size - n)

\* C10 on a Span: the same, the view returned starting at data() for head(n)
\* and at data() + size() - min(max(n, 0), size()) for tail(n).
C10_Span ==
    (subject = "View" /\ ~ub /\ ret.op \in {"head", "tail"}) =>
        LET o == ret.old.L
            n == Min(Max(ret.arg, 0), o.size)
        IN /\ ret.status = "ok"
           /\ L = o /\ mem = ret.old.mem
           /\ ret.len = n
           /\ ret.ptr = (IF ret.op = "head" THEN o.ptr ELSE o.ptr + o.size - n)

\* C10: head(n) and tail(n) on a Span or a Vector, for every integer n, are
\* the first and the last min(max(n, 0), size()) elements; the receiver is
\* unchanged and the call never fails.
C10_HeadTailClamp == C10_Vector /\ C10_Span

----------------------------------------------------------------------------
\* Properties of the views.

\* the address of element i of a view or operand (a Span has step 1)
AddrOf(v, i) == v.ptr + i * v.step

\* no element of dst shares its cell with another element of dst or with an
\* element of rhs
DistinctStorage(dst, rhs) ==
    /\ \A i, j \in 0..(dst.size - 1) : i # j => AddrOf(dst, i) # AddrOf(dst, j)
    /\ IsView(rhs) =>
          \A i \in 0..(dst.size - 1), j \in 0..(rhs.size - 1) :
              AddrOf(dst, i) # AddrOf(rhs, j)

\* element i of the operand as it was when the call was made
OldOperandAt(rhs, i) ==
    IF IsView(rhs) THEN ret.old.mem[AddrOf(rhs, i)] ELSE rhs.elems[i + 1]

\* the cells of the buffer that are no element of the receiver are as before
OthersKept(dst) ==
    \A a \in 1..MemLen :
        (\A i \in 0..(dst.size - 1) : AddrOf(dst, i) # a) => mem[a] = ret.old.mem[a]

\* C3 with a Vector as L: L += R with sizes equal adds R[i] to every L[i]
\* and leaves the size; with sizes different it fails and L is as before.
C3_Vector ==
    (subject = "Vector" /\ ~ub /\ ret.op = "vec_add_assign") =>
        /\ vec.m_size = ret.old.m_size /\ vec.m_cap = ret.old.m_cap
        /\ ret.old.m_size # Len(ret.arg) => ret.status = "error" /\ vec = ret.old
        /\ ret.old.m_size = Len(ret.arg) =>
              /\ ret.status = "ok"
              /\ \A i \in 1..Len(ret.arg) :
                    vec.m_store[i] - ret.arg[i] \in ReadCell(ret.old, i - 1)

\* what C3 says of the elements after L += R on a view L of the size of R
C3_Sums ==
    /\ ret.status = "ok"
    /\ \A i \in 0..(L.size - 1) :
          mem[AddrOf(L, i)] = ret.old.mem[AddrOf(L, i)] + OldOperandAt(ret.arg, i)
    /\ IsView(ret.arg) =>
          \A i \in 0..(ret.arg.size - 1) :
              mem[AddrOf(ret.arg, i)] = ret.old.mem[AddrOf(ret.arg, i)]

C4_SliceIndexing ==
    /\ (subject = "View" /\ ~ub /\ ret.op = "index_read" /\ L.kind = "Slice"
            /\ 0 <= ret.arg /\ ret.arg < L.size) =>
          /\ ret.ptr = L.ptr + ret.arg * L.step
          /\ ret.val = mem[L.ptr + ret.arg * L.step]
          /\ mem = ret.old.mem /\ L = ret.old.L
    /\ (subject = "View" /\ ~ub /\ ret.op = "index_write" /\ L.kind = "Slice"
            /\ 0 <= ret.arg[1] /\ ret.arg[1] < L.size) =>
          /\ ret.ptr = L.ptr + ret.arg[1] * L.step
          /\ mem = [ret.old.mem EXCEPT ![L.ptr + ret.arg[1] * L.step] = ret.arg[2]]
          /\ L = ret.old.L
    /\ (subject = "View" /\ ret.op = "SliceFromSpan") =>
          L.kind = "Slice" /\ L.step = 1 /\ L.ptr = ret.arg.ptr /\ L.size = ret.arg.size

\* element 1 of a Slice of step -1 was written, one cell below its pointer
C4_Witness ==
    /\ subject = "View" /\ ret.op = "index_write" /\ L.kind = "Slice"
    /\ L.step = -1 /\ L.size >= 2
    /\ ret.arg[1] = 1 /\ ret.ptr = L.ptr - 1
    /\ mem # ret.old.mem

\* C5: every Slice the public operations produce has step # 0 and size >= 0.
C5_SliceValid ==
    (subject = "View" /\ L.kind = "Slice") => L.step # 0 /\ L.size >= 0

\* C6: assigning a sequence to a Span or Slice fails when the sizes differ
\* and writes no element; with equal sizes and storage that does not
\* overlap dst[i] = src[i] for every i afterwards, the source and the rest
\* of the buffer are unchanged, whichever of the two copies was made.
C6_Assignment ==
    (subject = "View" /\ ~ub /\ ret.op = "assign") =>
        /\ L = ret.old.L
        /\ L.size # ret.arg.size => ret.status = "error" /\ mem = ret.old.mem
        /\ (L.size = ret.arg.size /\ DistinctStorage(L, ret.arg)) =>
              /\ ret.status = "ok"
              /\ \A i \in 0..(L.size - 1) :
                    mem[AddrOf(L, i)] = OldOperandAt(ret.arg, i)
              /\ OthersKept(L)

\* a Span of two elements was assigned another Span of two by memcpy
C6_Witness ==
    /\ subject = "View" /\ ret.op = "assign" /\ ret.status = "ok"
    /\ ret.val = TRUE
    /\ L.size = 2 /\ DistinctStorage(L, ret.arg)
    /\ mem # ret.old.mem

\* C7: on a Span of size n, pop_front(Count) with 0 <= Count <= n returns
\* the first Count elements and leaves the other n - Count; pop_back(Count)
\* returns the last Count and leaves the first n - Count; with Count > n the
\* call fails and pointer and size are unchanged.
C7_PopCount ==
    (subject = "View" /\ ~ub /\ ret.op \in {"pop_front_n", "pop_back_n"}) =>
        LET o == ret.old.L
            Count == ret.arg
        IN /\ mem = ret.old.mem
           /\ Count > o.size => ret.status = "error" /\ L = o
           /\ (0 <= Count /\ Count <= o.size) =>
                /\ ret.status = "ok"
                /\ ret.len = Count
                /\ ret.op = "pop_front_n" =>
                      ret.ptr = o.ptr /\ L = Span(o.ptr + Count, o.size - Count)
                /\ ret.op = "pop_back_n" =>
                      ret.ptr = o.ptr + o.size - Count /\ L = Span(o.ptr, o.size - Count)

\* pop_front(2) on a Span of three elements
C7_Witness ==
    /\ subject = "View" /\ ret.op = "pop_front_n" /\ ret.status = "ok"
    /\ ret.arg = 2 /\ ret.old.L.size = 3
    /\ L.size = 1 /\ ret.len = 2


----------------------------------------------------------------------------
\* C11, C12: selection by mask and by indices.

\* the elements in use of a Vector, as a sequence
Elements(v) == SubSeq(v.m_store, 1, v.m_size)

\* the elements of data the mask picks among the first n, in increasing index
RECURSIVE Picked(_, _, _)
Picked(data, m, n) ==
    IF n = 0 THEN <<>>
    ELSE IF m[n] # 0 THEN Append(Picked(data, m, n - 1), data[n])
         ELSE Picked(data, m, n - 1)

\* r agrees with the expected elements wherever these were initialised
Agrees(r, expected) ==
    /\ Len(r) = Len(expected)
    /\ \A k \in 1..Len(r) : expected[k] = Uninit \/ r[k] = expected[k]

\* C11: when the mask m is as long as the Vector b, b[m] returns a new Vector
\* holding exactly the b[i] with m[i] truthy, in increasing i, its size is the
\* number of truthy entries and b is unchanged; when the lengths differ the
\* call fails with an error.
C11_MaskSelection ==
    (ret.op = "select_mask" /\ ~ub) =>
        IF Len(ret.arg) = ret.old.m_size
        THEN /\ ret.status = "ok"
             /\ ret.val.m_size = Cardinality({i \in 1..Len(ret.arg) : ret.arg[i] # 0})
             /\ ret.val.m_size <= ret.val.m_cap
             /\ Agrees(Elements(ret.val),
                       Picked(ret.old.m_store, ret.arg, Len(ret.arg)))
             /\ vec = ret.old
        ELSE ret.status = "error" /\ vec = ret.old

\* a mask with a truthy entry that is not 1 and a falsy entry, applied
C11_Witness ==
    /\ ret.op = "select_mask" /\ ret.status = "ok"
    /\ Len(ret.arg) = 3 /\ ret.arg[1] = 0 /\ ret.arg[2] = 2 /\ ret.arg[3] = 1
    /\ ret.old.m_store[2] # ret.old.m_store[1]
    /\ ret.val.m_size = 2

\* C12: for indices all inside [0, b.size()), b[idx] returns a new Vector r
\* with r.size() = idx.size() and r[i] = b[idx[i]] for every i, and b is
\* unchanged.
C12_IndexSelection ==
    (/\ ret.op = "select_index" /\ ~ub
     /\ \A k \in 1..Len(ret.arg) : 0 <= ret.arg[k] /\ ret.arg[k] < ret.old.m_size) =>
        /\ ret.val.m_size = Len(ret.arg)
        /\ \A k \in 1..Len(ret.arg) :
              \/ ret.old.m_store[ret.arg[k] + 1] = Uninit
              \/ ret.val.m_store[k] = ret.old.m_store[ret.arg[k] + 1]
        /\ vec = ret.old


----------------------------------------------------------------------------
\* C13: after Vector a is move-constructed from b, or move-assigned from a
\* distinct b whatever a held before, a holds the storage, size and capacity
\* b had, b is empty (null pointer, size 0, capacity 0) and nothing was
\* allocated.
C13_MoveLeavesSourceEmpty ==
    (ret.op \in {"move_construct", "move_assign"}) =>
        /\ vec = ret.arg
        /\ ret.val = EmptyVector
        /\ ~ret.realloc


----------------------------------------------------------------------------
\* C14: reserve(n, keep) changes nothing when n <= capacity(), for either
\* keep; when n > capacity() the capacity becomes exactly n and, if keep is
\* true, the size and the first size elements are preserved, while if keep
\* is false the size becomes 0.
C14_ReserveFrame ==
    (ret.op = "reserve" /\ ~ub) =>
        LET n == ret.arg[1]
            keep == ret.arg[2]
            old == ret.old
        IN IF n <= old.m_cap
           THEN vec = old
           ELSE /\ vec.m_cap = n
                /\ keep => /\ vec.m_size = old.m_size
                           /\ \A i \in 1..old.m_size : vec.m_store[i] = old.m_store[i]
                /\ ~keep => vec.m_size = 0


----------------------------------------------------------------------------
\* C15: after append(other), other not aliasing the Vector, the size is the
\* old size plus other.size(), the capacity is the larger of the old capacity
\* and that sum, the elements below the old size are unchanged and element
\* old size + i is other[i]; the element-wise path and the block-copy path
\* for a Span give the same Vector.
C15_Append ==
    (ret.op \in {"append", "append_span"} /\ ~ub) =>
        LET old == ret.old
            other == ret.arg
        IN /\ vec.m_size = old.m_size + Len(other)
           /\ vec.m_cap = Max(old.m_cap, old.m_size + Len(other))
           /\ \A i \in 1..old.m_size : vec.m_store[i] = old.m_store[i]
           /\ \A i \in 1..Len(other) : vec.m_store[old.m_size + i] = other[i]
           /\ vec = append(old, other)
           /\ vec = append_span(old, other)

\* two elements appended through the block copy to a Vector that held one,
\* into a new block
C15_Witness ==
    /\ ret.op = "append_span" /\ ~ub /\ ret.realloc
    /\ ret.old.m_size = 1 /\ Len(ret.arg) = 2 /\ ret.arg[1] # ret.arg[2]
    /\ vec.m_size = 3


----------------------------------------------------------------------------
\* C16: unique()

\* the first element of every maximal run of equal elements among the first
\* n of s, in order
RECURSIVE RunHeads(_, _)
RunHeads(s, n) ==
    IF n = 0 THEN <<>>
    ELSE IF n > 1 /\ s[n] = s[n - 1] THEN RunHeads(s, n - 1)
         ELSE Append(RunHeads(s, n - 1), s[n])

\* C16: unique() replaces every maximal run of consecutive equal elements by
\* one representative, keeps the order of the runs, sets the size to the
\* number of runs and returns the old size minus the new one; elements equal
\* but not adjacent are kept, and [1,1,2,2,2,3] becomes [1,2,3].
C16_Unique ==
    /\ (ret.op = "unique" /\ ~ub) =>
          \E s \in Concrete(ret.old.m_store, ret.old.m_size) :
             LET n == ret.old.m_size
             IN /\ Elements(vec) = RunHeads(s, n)
                /\ vec.m_size = Cardinality({i \in 1..n : i = 1 \/ s[i] # s[i - 1]})
                /\ ret.val = n - vec.m_size
                /\ vec.m_cap = ret.old.m_cap
    /\ StdUnique(<<1, 1, 2, 2, 2, 3>>, <<>>) = <<1, 2, 3>>

\* a run of two collapsed into one element, the run after it kept
C16_Witness ==
    /\ ret.op = "unique" /\ ~ub
    /\ ret.old.m_size = 3 /\ ret.old.m_store = <<1, 1, 0>>
    /\ Elements(vec) = <<1, 0>> /\ ret.val = 1


----------------------------------------------------------------------------
\* C17, C18: save and load.

\* the images of the stream st that begin at its get position
ImagesAtGet(st) ==
    {st.images[k] : k \in {j \in 1..Len(st.images) : st.images[j].pos = st.g}}

\* the Vector holds what the image img recorded
Loaded(img) == vec.m_size = img.size /\ Elements(vec) = img.elems

\* C17: save writes the size and then the size elements in index order, and
\* a load that follows it, into a Vector of any earlier content, size and
\* capacity, leaves the size and the elements that were saved.
C17_SaveLoad ==
    /\ (ret.op = "save" /\ ~ub /\ ~ret.arg.stream.fail) =>
          \E s \in Concrete(ret.old.m_store, ret.old.m_size) :
             stream.data = ret.arg.stream.data \o <<ret.old.m_size>>
                              \o SubSeq(s, 1, ret.old.m_size)
    /\ (ret.op = "load" /\ ~ub /\ ~ret.arg.stream.fail) =>
          \A img \in ImagesAtGet(ret.arg.stream) :
             img.by = "save" => Loaded(img) /\ ~stream.fail

\* two elements loaded into a Vector that held one other
C17_Witness ==
    /\ ret.op = "load" /\ ~ub
    /\ ret.old.m_size = 1 /\ ret.old.m_cap = 1
    /\ \E img \in ImagesAtGet(ret.arg.stream) :
          /\ img.by = "save" /\ img.size = 2 /\ img.elems = <<1, 0>>
          /\ Elements(vec) = <<1, 0>>

\* C18: a load3 with expected tag E of what save3 wrote with tag W returns
\* false and leaves the saved size and elements when E = W, and returns true
\* whenever E # W, for all tags, 0 included.
C18_Labels ==
    (ret.op = "load3" /\ ~ub /\ ~ret.arg.stream.fail) =>
        \A img \in ImagesAtGet(ret.arg.stream) :
           img.by = "save3" =>
              IF ret.arg.Enc = img.tag
              THEN ret.val = FALSE /\ Loaded(img)
              ELSE ret.val = TRUE


----------------------------------------------------------------------------
\* C19: in any sequence of push, pop() and pop(index), pop() returns the
\* address pushed most recently among those neither returned by a pop()
\* nor removed by a pop(index) before; it returns null exactly when none is
\* left, and then size() is 0; pop(index) never changes size().
C19_StackPop ==
    /\ ret.op = "stack_pop" =>
          /\ ret.val = (IF ret.old.live = <<>> THEN NullPtr
                        ELSE ret.old.live[Len(ret.old.live)].addr)
          /\ ret.val = NullPtr => stack.m_size = 0
    /\ ret.op = "stack_pop_at" => stack.m_size = ret.old.stack.m_size

\* pop() passes the slots nulled by pop(index) and returns the address
\* pushed before them
C19_Witness ==
    /\ ret.op = "stack_pop"
    /\ ret.old.stack.m_size = 3
    /\ ret.old.stack.m_data[2] = NullPtr /\ ret.old.stack.m_data[3] = NullPtr
    /\ Len(ret.old.live) = 1
    /\ ret.val = ret.old.live[1].addr /\ ret.val # NullPtr
    /\ stack.m_size = 0


----------------------------------------------------------------------------
\* C20: the filter operations on a Span.

\* the number of leading elements of the Span sp over m that all satisfy F:
\* the position of the first one that does not, or the size
PrefixLength(sp, m, F) ==
    LET failing == {i \in 0..(sp.size - 1) : m[sp.ptr + i] \notin F}
    IN IF failing = {} THEN sp.size
       ELSE CHOOSE i \in failing : \A j \in failing : i <= j

\* C20: for every Span, predicate and step >= 1, count_filter_front returns
\* the number of leading elements that all satisfy the predicate, whatever
\* the step, and pop_front_filter removes exactly that prefix and returns it.
C20_FilterPrefix ==
    (/\ ret.op \in {"count_filter_front", "pop_front_filter"} /\ ~ub
     /\ ret.arg[2] >= 1) =>
        LET before == ret.old.L
            k == PrefixLength(before, ret.old.mem, ret.arg[1])
        IN /\ ret.val = k
           /\ ret.op = "count_filter_front" => L = before
           /\ ret.op = "pop_front_filter" =>
                 /\ L = Span(before.ptr + k, before.size - k)
                 /\ ret.ptr = before.ptr /\ ret.len = k


----------------------------------------------------------------------------
\* C21: operator[](index) of the Stack returns the stored address for
\* 0 <= index < size() and nullptr, without reading a slot, for every other
\* index, negative ones included; pop(index) returns nullptr and changes
\* nothing for every index outside [0, size()).
C21_StackIndexChecked ==
    /\ ret.op = "stack_index" =>
          IF 0 <= ret.arg /\ ret.arg < ret.old.stack.m_size
          THEN ~ub /\ ret.val = ret.old.stack.m_data[ret.arg + 1]
          ELSE ~ub /\ ret.val = NullPtr
    /\ (ret.op = "stack_pop_at"
          /\ ~(0 <= ret.arg /\ ret.arg < ret.old.stack.m_size)) =>
          ret.val = NullPtr /\ stack = ret.old.stack


----------------------------------------------------------------------------
\* C22: range_sign

\* the number of elements of arr with sign s
CountSign(arr, s) == Cardinality({i \in 1..Len(arr) : arr[i] = s})

\* C22: on a range ordered negative, zero, positive, range_sign terminates,
\* leaves [first, last) exactly the zero region (first = last at the
\* boundary of negative and positive when there is none), returns the number
\* of zero elements, and evaluates only elements of the range.
C22_RangeSign ==
    (subject = "Range" /\ range.done) =>
        /\ range.first = CountSign(range.arr, -1)
        /\ range.last = range.first + CountSign(range.arr, 0)
        /\ range.count = CountSign(range.arr, 0)
        /\ range.seen \subseteq 0..(Len(range.arr) - 1)

\* a range with elements of all three signs, searched
C22_Witness ==
    /\ subject = "Range" /\ range.done
    /\ range.arr = <<-1, -1, 0, 0, 0, 1, 1>>
    /\ range.first = 2 /\ range.last = 5 /\ range.count = 3


----------------------------------------------------------------------------
\* C23: operator== of Vectors

\* the elements of the right operand of the comparison recorded in ret
RightElements == IF ret.arg.same THEN Elements(ret.old) ELSE ret.arg.seq

RightSize == IF ret.arg.same THEN ret.old.m_size ELSE Len(ret.arg.seq)

\* the left operand has all its elements in its block and all of them written
Comparable(v) ==
    /\ 0 <= v.m_size /\ v.m_size <= Len(v.m_store)
    /\ \A i \in 1..v.m_size : v.m_store[i] # Uninit

\* C23: operator== returns true if and only if both operands have the same
\* size and pairwise equal elements; in particular v == v is true, also when
\* both operands are one object.
C23_EqualsIffSame ==
    (ret.op = "equals" /\ ~ub /\ Comparable(ret.old)) =>
        (ret.val <=> (ret.old.m_size = RightSize
                        /\ Elements(ret.old) = RightElements))


----------------------------------------------------------------------------
\* C24: the block of the Vector after a call

\* the calls on an existing Vector that record the Vector before the call
\* (construction makes a new one)
OnVector == ret.op \notin {"none", "Vector", "move_construct", "assign_vector"}

\* C24: only capacity-increasing operations reallocate: after a call that
\* leaves capacity() no larger than before (push_back below capacity,
\* pop_back, clear, resize or reserve within capacity, unique,
\* shrink_to_fit, copy-assignment or sequence-assignment of contents that
\* fit), data() is the block it was before the call.
C24_SameBlock ==
    (subject = "Vector" /\ OnVector /\ ~ub /\ ret.status = "ok"
       /\ 0 <= ret.old.m_size /\ ret.old.m_size <= ret.old.m_cap
       /\ ret.op \notin {"move_assign"}
       /\ vec.m_cap <= ret.old.m_cap) =>
        /\ ~ret.realloc
        /\ vec.m_data = ret.old.m_data


----------------------------------------------------------------------------
\* C25: assignment between views that may overlap

\* no two elements of the view share a cell
SelfDistinct(v) ==
    \A i, j \in 0..(v.size - 1) : i # j => AddrOf(v, i) # AddrOf(v, j)

\* C25: after a successful dst = src between two views of equal size, every
\* dst[i] is the value src[i] had before the call, also when the two views
\* overlap in the buffer.
C25_AssignOverlapping ==
    (subject = "View" /\ ~ub /\ ret.op = "assign" /\ ret.status = "ok"
       /\ IsView(ret.arg) /\ SelfDistinct(L) /\ Accessible(ret.arg)) =>
        \A i \in 0..(L.size - 1) : mem[AddrOf(L, i)] = OldOperandAt(ret.arg, i)


----------------------------------------------------------------------------
\* C26: pop_front(Count) and pop_back(Count) with any Count

\* C26: for every integer Count, negative ones included, checked
\* pop_front(Count) and pop_back(Count) either fail and leave the span as it
\* was, or leave it with 0 <= new size <= old size and inside the range
\* viewed before the call.
C26_PopNeverEnlarges ==
    (subject = "View" /\ ~ub /\ ret.op \in {"pop_front_n", "pop_back_n"}) =>
        LET o == ret.old.L
        IN \/ ret.status = "error" /\ L = o
           \/ /\ ret.status = "ok"
              /\ 0 <= L.size /\ L.size <= o.size
              /\ o.ptr <= L.ptr /\ L.ptr + L.size <= o.ptr + o.size


----------------------------------------------------------------------------
\* C27: front(Count) and back(Count)

\* C27: checked front(Count) and back(Count) terminate on every input: with
\* Count <= size() they return the sub-view of the first or last Count
\* elements and leave the span as it was, with Count > size() they fail with
\* an error.
C27_SubViewsTerminate ==
    (subject = "View" /\ ret.op \in {"front_n", "back_n"}) =>
        IF ret.arg <= L.size
        THEN /\ ~ub /\ ret.status = "ok"
             /\ ret.len = ret.arg
             /\ ret.ptr = IF ret.op = "front_n" THEN L.ptr
                                                ELSE L.ptr + L.size - ret.arg
        ELSE ~ub /\ ret.status = "error" /\ L = ret.old.L


----------------------------------------------------------------------------
\* C28: a Slice rebound through view()

\* C28: after b = a.view() the Slice b has the data pointer, the size and
\* the step of a, so that b[i] is the element a[i] for every i.
C28_ViewRoundTrip ==
    (subject = "View" /\ ~ub /\ ret.op = "slice_view_assign") =>
        /\ L.ptr = ret.arg.ptr /\ L.size = ret.arg.size /\ L.step = ret.arg.step
        /\ \A i \in 0..(L.size - 1) : ElemAddr(L, i) = ElemAddr(ret.arg, i)


----------------------------------------------------------------------------
\* C29: move assignment of XA

\* 0 <= size <= capacity, in a block of capacity elements
WellFormed(v) == 0 <= v.m_size /\ v.m_size <= v.m_cap /\ Len(v.m_store) = v.m_cap

----------------------------------------------------------------------------
\* C30: the total of a Timer

\* C30: under a clock that never runs backwards, after any sequence of
\* stamp() and reset() calls the accumulated total does not exceed the time
\* elapsed since construction: no span of time is added more than once.
C30_TotalWithinElapsed ==
    subject = "Timer" => timer.total_elapsed_ns <= timer.clock - timer.made

====
